---------------------------- MODULE Spec2Model ----------------------------
(***************************************************************************)
(* Model of the XBRL fact-resolution and anchor-selection engine of        *)
(* rx_data_gatherer (src/xbrl_extract_bs.py, src/config.py) and of the    *)
(* run of main over many cases (src/main.py, src/edgar_client.py).         *)
(*                                                                         *)
(* Python strings that the code slices, parses or orders (period ends,     *)
(* filed dates, forms, fiscal periods) are sequences of character codes.   *)
(* Concept names and unit names are TLA+ strings; TagChars gives the       *)
(* characters of a concept name where the code orders names.               *)
(* Python's None is the record None; a raw JSON value of a fact point is   *)
(* None, Num(n) or Str(s).                                                 *)
(***************************************************************************)
EXTENDS Integers, Sequences, FiniteSets, TLC

VARIABLES
    pc,            \* position of fetch_rx_snapshot_for_case
    facts,         \* the company-facts store returned by get_company_facts
    event_iso,     \* the event date of the case (characters)
    max_age_days,  \* settings.max_report_age_days
    snap,          \* outcome of build_rx_snapshot: None before the run, then a dict or a Raise
    record,        \* the record returned by fetch_rx_snapshot_for_case
    div,           \* a call of safe_div on its own: [a, b, ret], None when there is none
    task,          \* the case tasks of main: [pc, attempt, resp, facts, result] of each
    sem,           \* EdgarAsyncClient._sem: the free slots
    stats,         \* RunStats: done_units, total_units, finished and the HTTP counters
    reporter,      \* progress_reporter: [pc, shown]
    mpc,           \* position of main
    modstate       \* the mutating calls that have reached objects of module level

\* The state of a run of main over many cases
runvars == <<task, sem, stats, reporter, mpc, modstate>>

vars == <<pc, facts, event_iso, max_age_days, snap, record, div, runvars>>

---------------------------------------------------------------------------
(* Python values *)

None == [t |-> "None"]

Num(n) == [t |-> "num", n |-> n]

Str(s) == [t |-> "str", s |-> s]

\* A non-empty Python string kept as a TLA+ string (a concept name, a label, an
\* identifier, the text of an exception)
Name(s) == [t |-> "str", name |-> s]

Raise(exc) == [t |-> "raise", exc |-> exc]

IsRaise(r) == r.t = "raise"

\* Python truthiness of a raw JSON value: None, "" and 0 are falsy.
Truthy(v) ==
    CASE v.t = "None" -> FALSE
      [] v.t = "num" -> v.n # 0
      [] v.t = "str" -> IF "s" \in DOMAIN v THEN v.s # <<>> ELSE TRUE
      [] OTHER -> TRUE

\* (x or None)
OrNone(v) == IF Truthy(v) THEN v ELSE None

\* s[:k] of a Python string
Prefix(s, k) == SubSeq(s, 1, IF Len(s) < k THEN Len(s) ELSE k)

\* a < b for Python strings (lexicographic by code point)
StrLess(a, b) ==
    \E i \in 1..Len(b) :
        /\ \A j \in 1..(i - 1) : j <= Len(a) /\ a[j] = b[j]
        /\ (i > Len(a) \/ a[i] < b[i])

\* str.upper() (Python 3.11, Unicode 14.0.0). The characters whose upper case
\* is one other character, as runs <<first, last, stride, delta>>: every
\* character first, first + stride, ..., last maps to its code plus delta.
UpperRuns ==
    {<<97, 122, 1, -32>>, <<181, 181, 1, 743>>, <<224, 246, 1, -32>>,
     <<248, 254, 1, -32>>, <<255, 255, 1, 121>>, <<257, 303, 2, -1>>,
     <<305, 305, 1, -232>>, <<307, 311, 2, -1>>, <<314, 328, 2, -1>>,
     <<331, 375, 2, -1>>, <<378, 382, 2, -1>>, <<383, 383, 1, -300>>,
     <<384, 384, 1, 195>>, <<387, 389, 2, -1>>, <<392, 392, 1, -1>>,
     <<396, 396, 1, -1>>, <<402, 402, 1, -1>>, <<405, 405, 1, 97>>,
     <<409, 409, 1, -1>>, <<410, 410, 1, 163>>, <<414, 414, 1, 130>>,
     <<417, 421, 2, -1>>, <<424, 424, 1, -1>>, <<429, 429, 1, -1>>,
     <<432, 432, 1, -1>>, <<436, 438, 2, -1>>, <<441, 441, 1, -1>>,
     <<445, 445, 1, -1>>, <<447, 447, 1, 56>>, <<453, 453, 1, -1>>,
     <<454, 454, 1, -2>>, <<456, 456, 1, -1>>, <<457, 457, 1, -2>>,
     <<459, 459, 1, -1>>, <<460, 460, 1, -2>>, <<462, 476, 2, -1>>,
     <<477, 477, 1, -79>>, <<479, 495, 2, -1>>, <<498, 498, 1, -1>>,
     <<499, 499, 1, -2>>, <<501, 501, 1, -1>>, <<505, 543, 2, -1>>,
     <<547, 563, 2, -1>>, <<572, 572, 1, -1>>, <<575, 576, 1, 10815>>,
     <<578, 578, 1, -1>>, <<583, 591, 2, -1>>, <<592, 592, 1, 10783>>,
     <<593, 593, 1, 10780>>, <<594, 594, 1, 10782>>, <<595, 595, 1, -210>>,
     <<596, 596, 1, -206>>, <<598, 599, 1, -205>>, <<601, 601, 1, -202>>,
     <<603, 603, 1, -203>>, <<604, 604, 1, 42319>>, <<608, 608, 1, -205>>,
     <<609, 609, 1, 42315>>, <<611, 611, 1, -207>>, <<613, 613, 1, 42280>>,
     <<614, 614, 1, 42308>>, <<616, 616, 1, -209>>, <<617, 617, 1, -211>>,
     <<618, 618, 1, 42308>>, <<619, 619, 1, 10743>>, <<620, 620, 1, 42305>>,
     <<623, 623, 1, -211>>, <<625, 625, 1, 10749>>, <<626, 626, 1, -213>>,
     <<629, 629, 1, -214>>, <<637, 637, 1, 10727>>, <<640, 640, 1, -218>>,
     <<642, 642, 1, 42307>>, <<643, 643, 1, -218>>, <<647, 647, 1, 42282>>,
     <<648, 648, 1, -218>>, <<649, 649, 1, -69>>, <<650, 651, 1, -217>>,
     <<652, 652, 1, -71>>, <<658, 658, 1, -219>>, <<669, 669, 1, 42261>>,
     <<670, 670, 1, 42258>>, <<837, 837, 1, 84>>, <<881, 883, 2, -1>>,
     <<887, 887, 1, -1>>, <<891, 893, 1, 130>>, <<940, 940, 1, -38>>,
     <<941, 943, 1, -37>>, <<945, 961, 1, -32>>, <<962, 962, 1, -31>>,
     <<963, 971, 1, -32>>, <<972, 972, 1, -64>>, <<973, 974, 1, -63>>,
     <<976, 976, 1, -62>>, <<977, 977, 1, -57>>, <<981, 981, 1, -47>>,
     <<982, 982, 1, -54>>, <<983, 983, 1, -8>>, <<985, 1007, 2, -1>>,
     <<1008, 1008, 1, -86>>, <<1009, 1009, 1, -80>>, <<1010, 1010, 1, 7>>,
     <<1011, 1011, 1, -116>>, <<1013, 1013, 1, -96>>, <<1016, 1016, 1, -1>>,
     <<1019, 1019, 1, -1>>, <<1072, 1103, 1, -32>>, <<1104, 1119, 1, -80>>,
     <<1121, 1153, 2, -1>>, <<1163, 1215, 2, -1>>, <<1218, 1230, 2, -1>>,
     <<1231, 1231, 1, -15>>, <<1233, 1327, 2, -1>>, <<1377, 1414, 1, -48>>,
     <<4304, 4346, 1, 3008>>, <<4349, 4351, 1, 3008>>, <<5112, 5117, 1, -8>>,
     <<7296, 7296, 1, -6254>>, <<7297, 7297, 1, -6253>>, <<7298, 7298, 1, -6244>>,
     <<7299, 7300, 1, -6242>>, <<7301, 7301, 1, -6243>>, <<7302, 7302, 1, -6236>>,
     <<7303, 7303, 1, -6181>>, <<7304, 7304, 1, 35266>>, <<7545, 7545, 1, 35332>>,
     <<7549, 7549, 1, 3814>>, <<7566, 7566, 1, 35384>>, <<7681, 7829, 2, -1>>,
     <<7835, 7835, 1, -59>>, <<7841, 7935, 2, -1>>, <<7936, 7943, 1, 8>>,
     <<7952, 7957, 1, 8>>, <<7968, 7975, 1, 8>>, <<7984, 7991, 1, 8>>,
     <<8000, 8005, 1, 8>>, <<8017, 8023, 2, 8>>, <<8032, 8039, 1, 8>>,
     <<8048, 8049, 1, 74>>, <<8050, 8053, 1, 86>>, <<8054, 8055, 1, 100>>,
     <<8056, 8057, 1, 128>>, <<8058, 8059, 1, 112>>, <<8060, 8061, 1, 126>>,
     <<8112, 8113, 1, 8>>, <<8126, 8126, 1, -7205>>, <<8144, 8145, 1, 8>>,
     <<8160, 8161, 1, 8>>, <<8165, 8165, 1, 7>>, <<8526, 8526, 1, -28>>,
     <<8560, 8575, 1, -16>>, <<8580, 8580, 1, -1>>, <<9424, 9449, 1, -26>>,
     <<11312, 11359, 1, -48>>, <<11361, 11361, 1, -1>>, <<11365, 11365, 1, -10795>>,
     <<11366, 11366, 1, -10792>>, <<11368, 11372, 2, -1>>, <<11379, 11379, 1, -1>>,
     <<11382, 11382, 1, -1>>, <<11393, 11491, 2, -1>>, <<11500, 11502, 2, -1>>,
     <<11507, 11507, 1, -1>>, <<11520, 11557, 1, -7264>>, <<11559, 11559, 1, -7264>>,
     <<11565, 11565, 1, -7264>>, <<42561, 42605, 2, -1>>, <<42625, 42651, 2, -1>>,
     <<42787, 42799, 2, -1>>, <<42803, 42863, 2, -1>>, <<42874, 42876, 2, -1>>,
     <<42879, 42887, 2, -1>>, <<42892, 42892, 1, -1>>, <<42897, 42899, 2, -1>>,
     <<42900, 42900, 1, 48>>, <<42903, 42921, 2, -1>>, <<42933, 42947, 2, -1>>,
     <<42952, 42954, 2, -1>>, <<42961, 42961, 1, -1>>, <<42967, 42969, 2, -1>>,
     <<42998, 42998, 1, -1>>, <<43859, 43859, 1, -928>>, <<43888, 43967, 1, -38864>>,
     <<65345, 65370, 1, -32>>, <<66600, 66639, 1, -40>>, <<66776, 66811, 1, -40>>,
     <<66967, 67003, 2, -39>>, <<66968, 66977, 1, -39>>, <<66980, 66993, 1, -39>>,
     <<66996, 67001, 1, -39>>, <<67004, 67004, 1, -39>>, <<68800, 68850, 1, -64>>,
     <<71872, 71903, 1, -32>>, <<93792, 93823, 1, -32>>, <<125218, 125251, 1, -34>>}

\* The characters whose upper case is more than one character ('ß' gives
\* 'SS'), each with the code points of its upper case
UpperSpecial ==
    {<<223, <<83, 83>>>>, <<329, <<700, 78>>>>, <<496, <<74, 780>>>>,
     <<912, <<921, 776, 769>>>>, <<944, <<933, 776, 769>>>>, <<1415, <<1333, 1362>>>>,
     <<7830, <<72, 817>>>>, <<7831, <<84, 776>>>>, <<7832, <<87, 778>>>>,
     <<7833, <<89, 778>>>>, <<7834, <<65, 702>>>>, <<8016, <<933, 787>>>>,
     <<8018, <<933, 787, 768>>>>, <<8020, <<933, 787, 769>>>>, <<8022, <<933, 787, 834>>>>,
     <<8064, <<7944, 921>>>>, <<8065, <<7945, 921>>>>, <<8066, <<7946, 921>>>>,
     <<8067, <<7947, 921>>>>, <<8068, <<7948, 921>>>>, <<8069, <<7949, 921>>>>,
     <<8070, <<7950, 921>>>>, <<8071, <<7951, 921>>>>, <<8072, <<7944, 921>>>>,
     <<8073, <<7945, 921>>>>, <<8074, <<7946, 921>>>>, <<8075, <<7947, 921>>>>,
     <<8076, <<7948, 921>>>>, <<8077, <<7949, 921>>>>, <<8078, <<7950, 921>>>>,
     <<8079, <<7951, 921>>>>, <<8080, <<7976, 921>>>>, <<8081, <<7977, 921>>>>,
     <<8082, <<7978, 921>>>>, <<8083, <<7979, 921>>>>, <<8084, <<7980, 921>>>>,
     <<8085, <<7981, 921>>>>, <<8086, <<7982, 921>>>>, <<8087, <<7983, 921>>>>,
     <<8088, <<7976, 921>>>>, <<8089, <<7977, 921>>>>, <<8090, <<7978, 921>>>>,
     <<8091, <<7979, 921>>>>, <<8092, <<7980, 921>>>>, <<8093, <<7981, 921>>>>,
     <<8094, <<7982, 921>>>>, <<8095, <<7983, 921>>>>, <<8096, <<8040, 921>>>>,
     <<8097, <<8041, 921>>>>, <<8098, <<8042, 921>>>>, <<8099, <<8043, 921>>>>,
     <<8100, <<8044, 921>>>>, <<8101, <<8045, 921>>>>, <<8102, <<8046, 921>>>>,
     <<8103, <<8047, 921>>>>, <<8104, <<8040, 921>>>>, <<8105, <<8041, 921>>>>,
     <<8106, <<8042, 921>>>>, <<8107, <<8043, 921>>>>, <<8108, <<8044, 921>>>>,
     <<8109, <<8045, 921>>>>, <<8110, <<8046, 921>>>>, <<8111, <<8047, 921>>>>,
     <<8114, <<8122, 921>>>>, <<8115, <<913, 921>>>>, <<8116, <<902, 921>>>>,
     <<8118, <<913, 834>>>>, <<8119, <<913, 834, 921>>>>, <<8124, <<913, 921>>>>,
     <<8130, <<8138, 921>>>>, <<8131, <<919, 921>>>>, <<8132, <<905, 921>>>>,
     <<8134, <<919, 834>>>>, <<8135, <<919, 834, 921>>>>, <<8140, <<919, 921>>>>,
     <<8146, <<921, 776, 768>>>>, <<8147, <<921, 776, 769>>>>, <<8150, <<921, 834>>>>,
     <<8151, <<921, 776, 834>>>>, <<8162, <<933, 776, 768>>>>, <<8163, <<933, 776, 769>>>>,
     <<8164, <<929, 787>>>>, <<8166, <<933, 834>>>>, <<8167, <<933, 776, 834>>>>,
     <<8178, <<8186, 921>>>>, <<8179, <<937, 921>>>>, <<8180, <<911, 921>>>>,
     <<8182, <<937, 834>>>>, <<8183, <<937, 834, 921>>>>, <<8188, <<937, 921>>>>,
     <<64256, <<70, 70>>>>, <<64257, <<70, 73>>>>, <<64258, <<70, 76>>>>,
     <<64259, <<70, 70, 73>>>>, <<64260, <<70, 70, 76>>>>, <<64261, <<83, 84>>>>,
     <<64262, <<83, 84>>>>, <<64275, <<1348, 1350>>>>, <<64276, <<1348, 1333>>>>,
     <<64277, <<1348, 1339>>>>, <<64278, <<1358, 1350>>>>, <<64279, <<1348, 1341>>>>}

InUpperRun(c, r) == r[1] <= c /\ c <= r[2] /\ (c - r[1]) % r[3] = 0

\* The code points of chr(c).upper()
UpperChar(c) ==
    IF c < 128 THEN <<IF c \in 97..122 THEN c - 32 ELSE c>>
    ELSE IF \E e \in UpperSpecial : e[1] = c
    THEN (CHOOSE e \in UpperSpecial : e[1] = c)[2]
    ELSE IF \E r \in UpperRuns : InUpperRun(c, r)
    THEN <<c + (CHOOSE r \in UpperRuns : InUpperRun(c, r))[4]>>
    ELSE <<c>>

\* s.upper(): the upper cases of the characters of s, one after the other
RECURSIVE Upper(_)
Upper(s) == IF s = <<>> THEN <<>> ELSE UpperChar(Head(s)) \o Upper(Tail(s))

---------------------------------------------------------------------------
(* Dates: datetime.strptime(s[:10], "%Y-%m-%d").date() and date ordinals *)

\* The code points of the digit zero of every script: the decimal digits of
\* Unicode 14.0.0 (category Nd) are the ten code points from each of them on.
\* strptime matches a digit with \d, which on a str matches all of them, and
\* reads the field with int(), which gives each its decimal value.
DigitZeros ==
    {48, 1632, 1776, 1984, 2406, 2534, 2662, 2790, 2918, 3046,
     3174, 3302, 3430, 3558, 3664, 3792, 3872, 4160, 4240, 6112,
     6160, 6470, 6608, 6784, 6800, 6992, 7088, 7232, 7248, 42528,
     43216, 43264, 43472, 43504, 43600, 44016, 65296, 66720, 68912, 69734,
     69872, 69942, 70096, 70384, 70736, 70864, 71248, 71360, 71472, 71904,
     72016, 72784, 73040, 73120, 92768, 92864, 93008, 120782, 120792, 120802,
     120812, 120822, 123200, 123632, 125264, 130032}

IsDigit(c) == c \in 48..57 \/ (c > 127 /\ \E z \in DigitZeros : c \in z..(z + 9))

\* int() of one decimal digit
DigitVal(c) ==
    IF c \in 48..57 THEN c - 48
    ELSE c - (CHOOSE z \in DigitZeros : c \in z..(z + 9))

Dash == 45

IsLeap(y) == (y % 4 = 0) /\ ((y % 100 # 0) \/ (y % 400 = 0))

DaysInMonth(y, m) ==
    CASE m \in {1, 3, 5, 7, 8, 10, 12} -> 31
      [] m \in {4, 6, 9, 11} -> 30
      [] OTHER -> IF IsLeap(y) THEN 29 ELSE 28

RECURSIVE DaysBeforeMonth(_, _)
DaysBeforeMonth(y, m) ==
    IF m <= 1 THEN 0 ELSE DaysBeforeMonth(y, m - 1) + DaysInMonth(y, m - 1)

DaysBeforeYear(y) ==
    (y - 1) * 365 + ((y - 1) \div 4) - ((y - 1) \div 100) + ((y - 1) \div 400)

\* date.toordinal(); (a - b).days is ToOrdinal(a) - ToOrdinal(b)
ToOrdinal(dt) == DaysBeforeYear(dt.y) + DaysBeforeMonth(dt.y, dt.m) + dt.d

\* Length of the month field that the %m pattern (1[0-2]|0[1-9]|[1-9])
\* matches at position p of s, 0 if none.
MonthLen(s, p) ==
    IF /\ p + 1 <= Len(s)
       /\ \/ (s[p] = 49 /\ s[p + 1] \in 48..50)
          \/ (s[p] = 48 /\ s[p + 1] \in 49..57)
    THEN 2
    ELSE IF p <= Len(s) /\ s[p] \in 49..57 THEN 1 ELSE 0

\* Length of the day field that the %d pattern
\* (3[0-1]|[1-2]\d|0[1-9]|[1-9]| [1-9]) matches at position p of s, 0 if none.
DayLen(s, p) ==
    IF /\ p + 1 <= Len(s)
       /\ \/ (s[p] = 51 /\ s[p + 1] \in 48..49)
          \/ (s[p] \in 49..50 /\ IsDigit(s[p + 1]))
          \/ (s[p] = 48 /\ s[p + 1] \in 49..57)
          \/ (s[p] = 32 /\ s[p + 1] \in 49..57)
    THEN 2
    ELSE IF p <= Len(s) /\ s[p] \in 49..57 THEN 1 ELSE 0

FieldVal(s, p, n) ==
    IF n = 1 THEN DigitVal(s[p])
    ELSE (IF s[p] = 32 THEN 0 ELSE 10 * DigitVal(s[p])) + DigitVal(s[p + 1])

\* _iso_to_date(s): the date [y, m, d], or Raise("ValueError")
IsoToDate(str) ==
    LET s == Prefix(str, 10)
        ml == MonthLen(s, 6)
        dl == DayLen(s, 7 + ml)
    IN  IF /\ Len(s) >= 5
           /\ \A i \in 1..4 : IsDigit(s[i])
           /\ s[5] = Dash
           /\ ml > 0
           /\ 6 + ml <= Len(s)
           /\ s[6 + ml] = Dash
           /\ dl > 0
           /\ Len(s) = 6 + ml + dl
        THEN LET y == 1000 * DigitVal(s[1]) + 100 * DigitVal(s[2])
                      + 10 * DigitVal(s[3]) + DigitVal(s[4])
                 m == FieldVal(s, 6, ml)
                 d == FieldVal(s, 7 + ml, dl)
             IN  IF y >= 1 /\ d <= DaysInMonth(y, m)
                 THEN [t |-> "date", y |-> y, m |-> m, d |-> d]
                 ELSE Raise("ValueError")
        ELSE Raise("ValueError")

\* _as_iso10(s): the first ten characters of a string of at least ten, else None
AsIso10(v) ==
    IF v.t = "str" /\ Len(v.s) >= 10 THEN Str(SubSeq(v.s, 1, 10)) ELSE None

---------------------------------------------------------------------------
(* Configuration: src/config.py *)

MaxReportAgeDays == 160

S_10K == <<49, 48, 45, 75>>     \* "10-K"
S_20F == <<50, 48, 45, 70>>     \* "20-F"
S_40F == <<52, 48, 45, 70>>     \* "40-F"
S_10Q == <<49, 48, 45, 81>>     \* "10-Q"

ANNUAL_FORMS == {S_10K, S_20F, S_40F}

QUARTERLY_FORMS == {S_10Q}

TAG_CASH == <<"CashAndCashEquivalentsAtCarryingValue",
              "CashCashEquivalentsRestrictedCashAndRestrictedCashEquivalents">>
TAG_LIAB_TOTAL == <<"Liabilities">>
TAG_LIAB_CUR == <<"LiabilitiesCurrent">>
TAG_LIAB_NONCUR == <<"LiabilitiesNoncurrent">>
TAG_ASSETS == <<"Assets">>
TAG_ASSETS_CUR == <<"AssetsCurrent">>
TAG_AR == <<"AccountsReceivableNetCurrent", "AccountsReceivableNet">>
TAG_INV == <<"InventoryNet">>
TAG_DEBT_CUR == <<"DebtCurrent">>
TAG_DEBT_LT == <<"LongTermDebtNoncurrent", "LongTermDebt">>
TAG_OI == <<"OperatingIncomeLoss">>
TAG_INT == <<"InterestExpense">>
TAG_OCF == <<"NetCashProvidedByUsedInOperatingActivities",
             "NetCashProvidedByUsedInOperatingActivitiesContinuingOperations">>

ANCHOR_TAGS == <<TAG_CASH, TAG_LIAB_TOTAL, TAG_ASSETS, TAG_LIAB_CUR, TAG_ASSETS_CUR,
                 TAG_OI, TAG_INT, TAG_OCF, TAG_DEBT_CUR, TAG_DEBT_LT, TAG_AR, TAG_INV>>

\* The characters of each concept name of src/config.py (Python orders strings
\* by code point).
TagChars(t) ==
    CASE t = "CashAndCashEquivalentsAtCarryingValue" ->
        <<67, 97, 115, 104, 65, 110, 100, 67, 97, 115, 104, 69, 113, 117, 105, 118, 97,
        108, 101, 110, 116, 115, 65, 116, 67, 97, 114, 114, 121, 105, 110, 103, 86, 97,
        108, 117, 101>>
    [] t = "CashCashEquivalentsRestrictedCashAndRestrictedCashEquivalents" ->
        <<67, 97, 115, 104, 67, 97, 115, 104, 69, 113, 117, 105, 118, 97, 108, 101, 110,
        116, 115, 82, 101, 115, 116, 114, 105, 99, 116, 101, 100, 67, 97, 115, 104, 65,
        110, 100, 82, 101, 115, 116, 114, 105, 99, 116, 101, 100, 67, 97, 115, 104, 69,
        113, 117, 105, 118, 97, 108, 101, 110, 116, 115>>
    [] t = "Liabilities" ->
        <<76, 105, 97, 98, 105, 108, 105, 116, 105, 101, 115>>
    [] t = "LiabilitiesCurrent" ->
        <<76, 105, 97, 98, 105, 108, 105, 116, 105, 101, 115, 67, 117, 114, 114, 101,
        110, 116>>
    [] t = "LiabilitiesNoncurrent" ->
        <<76, 105, 97, 98, 105, 108, 105, 116, 105, 101, 115, 78, 111, 110, 99, 117,
        114, 114, 101, 110, 116>>
    [] t = "Assets" ->
        <<65, 115, 115, 101, 116, 115>>
    [] t = "AssetsCurrent" ->
        <<65, 115, 115, 101, 116, 115, 67, 117, 114, 114, 101, 110, 116>>
    [] t = "AccountsReceivableNetCurrent" ->
        <<65, 99, 99, 111, 117, 110, 116, 115, 82, 101, 99, 101, 105, 118, 97, 98, 108,
        101, 78, 101, 116, 67, 117, 114, 114, 101, 110, 116>>
    [] t = "AccountsReceivableNet" ->
        <<65, 99, 99, 111, 117, 110, 116, 115, 82, 101, 99, 101, 105, 118, 97, 98, 108,
        101, 78, 101, 116>>
    [] t = "InventoryNet" ->
        <<73, 110, 118, 101, 110, 116, 111, 114, 121, 78, 101, 116>>
    [] t = "DebtCurrent" ->
        <<68, 101, 98, 116, 67, 117, 114, 114, 101, 110, 116>>
    [] t = "LongTermDebtNoncurrent" ->
        <<76, 111, 110, 103, 84, 101, 114, 109, 68, 101, 98, 116, 78, 111, 110, 99, 117,
        114, 114, 101, 110, 116>>
    [] t = "LongTermDebt" ->
        <<76, 111, 110, 103, 84, 101, 114, 109, 68, 101, 98, 116>>
    [] t = "OperatingIncomeLoss" ->
        <<79, 112, 101, 114, 97, 116, 105, 110, 103, 73, 110, 99, 111, 109, 101, 76,
        111, 115, 115>>
    [] t = "InterestExpense" ->
        <<73, 110, 116, 101, 114, 101, 115, 116, 69, 120, 112, 101, 110, 115, 101>>
    [] t = "NetCashProvidedByUsedInOperatingActivities" ->
        <<78, 101, 116, 67, 97, 115, 104, 80, 114, 111, 118, 105, 100, 101, 100, 66,
        121, 85, 115, 101, 100, 73, 110, 79, 112, 101, 114, 97, 116, 105, 110, 103, 65,
        99, 116, 105, 118, 105, 116, 105, 101, 115>>
    [] t = "NetCashProvidedByUsedInOperatingActivitiesContinuingOperations" ->
        <<78, 101, 116, 67, 97, 115, 104, 80, 114, 111, 118, 105, 100, 101, 100, 66,
        121, 85, 115, 101, 100, 73, 110, 79, 112, 101, 114, 97, 116, 105, 110, 103, 65,
        99, 116, 105, 118, 105, 116, 105, 101, 115, 67, 111, 110, 116, 105, 110, 117,
        105, 110, 103, 79, 112, 101, 114, 97, 116, 105, 111, 110, 115>>

---------------------------------------------------------------------------
(* FactStore accessor and point resolver *)

\* A store is [entityName, us_gaap]; us_gaap maps a concept name to its unit
\* buckets in dict order; a bucket is [unit, series], a series a sequence of raw
\* points [fldEnd, fldVal, fldForm, fldFp, fldFiled, fldAccn] (pt.get(key) of
\* each key; None when the key is missing).

RECURSIVE Concat(_)
Concat(seqs) == IF seqs = <<>> THEN <<>> ELSE Head(seqs) \o Concat(Tail(seqs))

\* An accessor that reads the first unit bucket only
IterTagPoints_FirstBucket(f, tag) ==
    IF tag \in DOMAIN f.us_gaap
    THEN LET units == f.us_gaap[tag]
         IN  [i \in 1..Len(units[1].series) |->
                 [unit |-> units[1].unit, pt |-> units[1].series[i]]]
    ELSE <<>>

\* _iter_tag_points(facts, tag): the (unit, pt) pairs of a concept, unit by unit
IterTagPoints(f, tag) ==
    IF tag \in DOMAIN f.us_gaap
    THEN LET units == f.us_gaap[tag]
         IN  Concat([b \in 1..Len(units) |->
                        [i \in 1..Len(units[b].series) |->
                            [unit |-> units[b].unit, pt |-> units[b].series[i]]]])
    ELSE <<>>

\* The (tag, unit, pt) triples that the two outer loops of point_for_end visit
ChainPoints(f, tag_candidates) ==
    Concat([k \in 1..Len(tag_candidates) |->
               LET pts == IterTagPoints(f, tag_candidates[k])
               IN  [i \in 1..Len(pts) |->
                       [tag |-> tag_candidates[k], unit |-> pts[i].unit,
                        pt |-> pts[i].pt]]])

Point(tag, unit, pt, end) ==
    [t |-> "Point", tag |-> tag, unit |-> unit, val |-> pt.fldVal.n, end |-> end,
     filed |-> AsIso10(pt.fldFiled), fp |-> OrNone(pt.fldFp),
     form |-> OrNone(pt.fldForm), accn |-> OrNone(pt.fldAccn)]

\* A score that ranks by the concept name alone
ScoreGreater_TagOnly(cand, best, prefer_unit) ==
    StrLess(TagChars(best.tag), TagChars(cand.tag))

\* score(cand) > score(best): tuples (1 if unit is preferred else 0, tag)
ScoreGreater(cand, best, prefer_unit) ==
    LET sc == IF cand.unit = prefer_unit THEN 1 ELSE 0
        sb == IF best.unit = prefer_unit THEN 1 ELSE 0
    IN  \/ sc > sb
        \/ sc = sb /\ StrLess(TagChars(best.tag), TagChars(cand.tag))

RECURSIVE PointLoop(_, _, _, _)
PointLoop(trip, end_iso, prefer_unit, best) ==
    IF trip = <<>> THEN best
    ELSE LET x == Head(trip)
             end == AsIso10(x.pt.fldEnd)
         IN  IF end # Str(end_iso) THEN PointLoop(Tail(trip), end_iso, prefer_unit, best)
             ELSE IF x.pt.fldVal.t # "num"
                  THEN PointLoop(Tail(trip), end_iso, prefer_unit, best)
             ELSE LET cand == Point(x.tag, x.unit, x.pt, end.s)
                  IN  IF best = None \/ ScoreGreater(cand, best, prefer_unit)
                      THEN PointLoop(Tail(trip), end_iso, prefer_unit, cand)
                      ELSE PointLoop(Tail(trip), end_iso, prefer_unit, best)

\* A resolver that falls back to the first period end the chain has when the
\* target end has no point
PointForEnd_OtherEnd(f, tag_candidates, end_iso) ==
    LET trip == ChainPoints(f, tag_candidates)
        exact == PointLoop(trip, end_iso, "USD", None)
        other == {i \in 1..Len(trip) : AsIso10(trip[i].pt.fldEnd) # None}
        first == CHOOSE i \in other : \A j \in other : i <= j
    IN  IF exact # None \/ other = {} THEN exact
        ELSE PointLoop(trip, AsIso10(trip[first].pt.fldEnd).s, "USD", None)

\* point_for_end(facts, tag_candidates, end_iso): a Point or None
PointForEnd(f, tag_candidates, end_iso) ==
    PointLoop(ChainPoints(f, tag_candidates), end_iso, "USD", None)

---------------------------------------------------------------------------
(* Anchor selector *)

\* dict.get(k) on a dict modelled as a function; {} is <<>>
DictGet(d, k) == IF k \in DOMAIN d THEN d[k] ELSE None

HasEnd(ends_meta, end) == \E i \in 1..Len(ends_meta) : ends_meta[i].end = end

\* A setdefault that overwrites the metadata of an end it already holds
SetDefault_Overwrite(ends_meta, end, meta) ==
    IF HasEnd(ends_meta, end)
    THEN [i \in 1..Len(ends_meta) |->
             IF ends_meta[i].end = end THEN [end |-> end, meta |-> meta]
             ELSE ends_meta[i]]
    ELSE Append(ends_meta, [end |-> end, meta |-> meta])

\* ends_meta.setdefault(end, meta) (lines 147-152)
SetDefault(ends_meta, end, meta) ==
    IF HasEnd(ends_meta, end) THEN ends_meta
    ELSE Append(ends_meta, [end |-> end, meta |-> meta])

\* The (tag, unit, pt) triples that the three loops over ANCHOR_TAGS visit
AnchorPoints(f) ==
    Concat([k \in 1..Len(ANCHOR_TAGS) |-> ChainPoints(f, ANCHOR_TAGS[k])])

\* A window that rejects the boundary age
OutsideWindow_Strict(age, max_age) == age < 0 \/ age >= max_age

\* age < 0 or age > max_age_days (line 144)
OutsideWindow(age, max_age) == age < 0 \/ age > max_age

\* A form filter that excludes nothing
FormExcluded_Never(form, allowed_forms) == FALSE

\* A form filter that also drops the points without a form
FormExcluded_RequireForm(form, allowed_forms) == form \notin allowed_forms

\* if form and form not in allowed_forms (line 136)
FormExcluded(form, allowed_forms) == form # <<>> /\ form \notin allowed_forms

\* Candidate generation: the loop body of lines 131-152 over the triples, with
\* ends_meta as the insertion-ordered sequence of [end, meta]; a Raise ends it.
RECURSIVE CandidateLoop(_, _, _, _, _)
CandidateLoop(trip, event_d, max_age, allowed_forms, ends_meta) ==
    IF trip = <<>> THEN [t |-> "ok", ends_meta |-> ends_meta]
    ELSE LET pt == Head(trip).pt
             rest == Tail(trip)
             end == AsIso10(pt.fldEnd)
         IN  IF end = None
             THEN CandidateLoop(rest, event_d, max_age, allowed_forms, ends_meta)
             ELSE IF Truthy(pt.fldForm) /\ pt.fldForm.t # "str"
             THEN Raise("AttributeError")
             ELSE LET form == IF Truthy(pt.fldForm) THEN Upper(pt.fldForm.s) ELSE <<>>
                  IN  IF FormExcluded(form, allowed_forms)
                      THEN CandidateLoop(rest, event_d, max_age, allowed_forms, ends_meta)
                      ELSE LET end_d == IsoToDate(end.s)
                           IN  IF IsRaise(end_d) THEN end_d
                               ELSE IF ToOrdinal(end_d) > ToOrdinal(event_d)
                               THEN CandidateLoop(rest, event_d, max_age,
                                                  allowed_forms, ends_meta)
                               ELSE LET age == ToOrdinal(event_d) - ToOrdinal(end_d)
                                    IN  IF OutsideWindow(age, max_age)
                                        THEN CandidateLoop(rest, event_d, max_age,
                                                           allowed_forms, ends_meta)
                                        ELSE CandidateLoop(rest, event_d, max_age,
                                                 allowed_forms,
                                                 SetDefault(ends_meta, end.s,
                                                    [form |-> OrNone(pt.fldForm),
                                                     fp |-> OrNone(pt.fldFp),
                                                     filed |-> AsIso10(pt.fldFiled),
                                                     age_days |-> Num(age)]))

BoolInt(b) == IF b THEN 1 ELSE 0

\* The base inputs that the last loop of the coverage scoring counts one by
\* one (base_inputs without "liab", "debt_cur" and "debt_lt"), in dict order
BaseInputsCounted ==
    <<TAG_CASH, TAG_ASSETS, TAG_ASSETS_CUR, TAG_LIAB_CUR, TAG_AR, TAG_INV, TAG_OI,
      TAG_INT, TAG_OCF>>

\* A coverage whose last loop does not skip "liab", "debt_cur" and "debt_lt"
Coverage_NoSkip(f, end) ==
    LET liab_total == PointForEnd(f, TAG_LIAB_TOTAL, end)
        lc == PointForEnd(f, TAG_LIAB_CUR, end)
        lnc == PointForEnd(f, TAG_LIAB_NONCUR, end)
        dc == PointForEnd(f, TAG_DEBT_CUR, end)
        dl == PointForEnd(f, TAG_DEBT_LT, end)
    IN  BoolInt(liab_total # None \/ (lc # None /\ lnc # None))
        + BoolInt(dc # None \/ dl # None)
        + BoolInt(liab_total # None) + BoolInt(dc # None) + BoolInt(dl # None)
        + Cardinality({k \in 1..Len(BaseInputsCounted) :
                          PointForEnd(f, BaseInputsCounted[k], end) # None})

\* A coverage that counts total liabilities as soon as one component resolves
Coverage_AnyComponent(f, end) ==
    LET liab_total == PointForEnd(f, TAG_LIAB_TOTAL, end)
        lc == PointForEnd(f, TAG_LIAB_CUR, end)
        lnc == PointForEnd(f, TAG_LIAB_NONCUR, end)
        dc == PointForEnd(f, TAG_DEBT_CUR, end)
        dl == PointForEnd(f, TAG_DEBT_LT, end)
    IN  BoolInt(liab_total # None \/ lc # None \/ lnc # None)
        + BoolInt(dc # None \/ dl # None)
        + Cardinality({k \in 1..Len(BaseInputsCounted) :
                          PointForEnd(f, BaseInputsCounted[k], end) # None})

\* Coverage of one candidate end (lines 173-195)
Coverage(f, end) ==
    LET liab_total == PointForEnd(f, TAG_LIAB_TOTAL, end)
        lc == PointForEnd(f, TAG_LIAB_CUR, end)
        lnc == PointForEnd(f, TAG_LIAB_NONCUR, end)
        dc == PointForEnd(f, TAG_DEBT_CUR, end)
        dl == PointForEnd(f, TAG_DEBT_LT, end)
    IN  BoolInt(liab_total # None \/ (lc # None /\ lnc # None))
        + BoolInt(dc # None \/ dl # None)
        + Cardinality({k \in 1..Len(BaseInputsCounted) :
                          PointForEnd(f, BaseInputsCounted[k], end) # None})

\* (cov1, e1) < (cov2, e2), the sort key of line 198
KeyLess(cov1, e1, cov2, e2) == cov1 < cov2 \/ (cov1 = cov2 /\ StrLess(e1, e2))

\* ends_coverage: the coverage of every candidate end, in the order of
\* ends_meta (the loop of lines 172-195)
RECURSIVE EndsCoverage(_, _)
EndsCoverage(f, ends_meta) ==
    IF ends_meta = <<>> THEN <<>>
    ELSE <<Coverage(f, Head(ends_meta).end)>> \o EndsCoverage(f, Tail(ends_meta))

\* sorted(ends_meta.keys(), key=...)[-1]: the index of the greatest key
BestIndex(ends_meta, ends_coverage) ==
    CHOOSE i \in 1..Len(ends_meta) :
        \A j \in 1..Len(ends_meta) :
            j # i => KeyLess(ends_coverage[j], ends_meta[j].end,
                             ends_coverage[i], ends_meta[i].end)

\* latest_report_end_within_window: [end, meta] (end None and meta {} when no
\* candidate), or a Raise
LatestReportEndWithinWindow(f, ev_iso, max_age, allowed_forms) ==
    LET Best(best_end, m, cov) ==
            [t |-> "ok", end |-> Str(best_end),
             meta |-> [form |-> m.form, fp |-> m.fp, filed |-> m.filed,
                       age_days |-> m.age_days, coverage |-> Num(cov)]]
        Pick(ends_meta, ends_coverage, b) ==
            Best(ends_meta[b].end, ends_meta[b].meta, ends_coverage[b])
        Score(ends_meta, ends_coverage) ==
            Pick(ends_meta, ends_coverage, BestIndex(ends_meta, ends_coverage))
        Scanned(scan) ==
            IF IsRaise(scan) THEN scan
            ELSE IF scan.ends_meta = <<>>
            THEN [t |-> "ok", end |-> None, meta |-> <<>>]
            ELSE Score(scan.ends_meta, EndsCoverage(f, scan.ends_meta))
        Parsed(event_d) ==
            IF IsRaise(event_d) THEN event_d
            ELSE Scanned(CandidateLoop(AnchorPoints(f), event_d, max_age,
                                       allowed_forms, <<>>))
    IN  Parsed(IsoToDate(ev_iso))

---------------------------------------------------------------------------
(* Derived concepts, ratios, snapshot *)

\* A total that accepts the current liabilities alone
TotalLiabilitiesAtEnd_Partial(f, end_iso) ==
    LET p == PointForEnd(f, TAG_LIAB_TOTAL, end_iso)
        lc == PointForEnd(f, TAG_LIAB_CUR, end_iso)
        lnc == PointForEnd(f, TAG_LIAB_NONCUR, end_iso)
    IN  IF p # None THEN [val |-> Num(p.val), tag |-> Name(p.tag)]
        ELSE IF lc = None THEN [val |-> None, tag |-> None]
        ELSE IF lnc = None THEN [val |-> Num(lc.val), tag |-> Name(lc.tag)]
        ELSE [val |-> Num(lc.val + lnc.val),
              tag |-> Name("LiabilitiesCurrent+LiabilitiesNoncurrent")]

\* total_liabilities_at_end: [val, tag] (the third component is unused by callers)
TotalLiabilitiesAtEnd(f, end_iso) ==
    LET p == PointForEnd(f, TAG_LIAB_TOTAL, end_iso)
        lc == PointForEnd(f, TAG_LIAB_CUR, end_iso)
        lnc == PointForEnd(f, TAG_LIAB_NONCUR, end_iso)
    IN  IF p # None THEN [val |-> Num(p.val), tag |-> Name(p.tag)]
        ELSE IF lc = None \/ lnc = None THEN [val |-> None, tag |-> None]
        ELSE [val |-> Num(lc.val + lnc.val),
              tag |-> Name("LiabilitiesCurrent+LiabilitiesNoncurrent")]

\* "+".join(used) for the tags of the two debt chains
JoinPlus(used) ==
    CASE used = <<"DebtCurrent">> -> "DebtCurrent"
      [] used = <<"LongTermDebtNoncurrent">> -> "LongTermDebtNoncurrent"
      [] used = <<"LongTermDebt">> -> "LongTermDebt"
      [] used = <<"DebtCurrent", "LongTermDebtNoncurrent">> ->
            "DebtCurrent+LongTermDebtNoncurrent"
      [] used = <<"DebtCurrent", "LongTermDebt">> -> "DebtCurrent+LongTermDebt"

\* A total debt that needs both components
TotalDebtAtEnd_BothRequired(f, end_iso) ==
    LET dc == PointForEnd(f, TAG_DEBT_CUR, end_iso)
        dl == PointForEnd(f, TAG_DEBT_LT, end_iso)
    IN  IF dc = None \/ dl = None THEN [val |-> None, tag |-> None]
        ELSE [val |-> Num(dc.val + dl.val),
              tag |-> Name(JoinPlus(<<dc.tag, dl.tag>>))]

\* total_debt_at_end: [val, tag]
TotalDebtAtEnd(f, end_iso) ==
    LET dc == PointForEnd(f, TAG_DEBT_CUR, end_iso)
        dl == PointForEnd(f, TAG_DEBT_LT, end_iso)
    IN  IF dc = None /\ dl = None THEN [val |-> None, tag |-> None]
        ELSE [val |-> Num((IF dc # None THEN dc.val ELSE 0)
                          + (IF dl # None THEN dl.val ELSE 0)),
              tag |-> Name(JoinPlus((IF dc # None THEN <<dc.tag>> ELSE <<>>)
                                   \o (IF dl # None THEN <<dl.tag>> ELSE <<>>)))]

Abs(n) == IF n < 0 THEN -n ELSE n

RECURSIVE Gcd(_, _)
Gcd(a, b) == IF b = 0 THEN a ELSE Gcd(b, a % b)

\* The float a / b, kept exact as a fraction in lowest terms with q > 0
Quot(a, b) ==
    LET g == Gcd(Abs(a), Abs(b))
        sg == IF b < 0 THEN -1 ELSE 1
    IN  [t |-> "quot", p |-> sg * (a \div g), q |-> sg * (b \div g)]

\* A division that takes an absent numerator for zero
SafeDiv_AbsentNumerator(a, b) ==
    IF b = None THEN None
    ELSE IF b.n = 0 THEN None
    ELSE Quot(IF a = None THEN 0 ELSE a.n, b.n)

\* safe_div(a, b)
SafeDiv(a, b) ==
    IF a = None \/ b = None THEN None
    ELSE IF b.n = 0 THEN None
    ELSE Quot(a.n, b.n)

\* A value that is 0 for an absent point
ValOf_ZeroDefault(p) == IF p # None THEN Num(p.val) ELSE Num(0)

ValOf(p) == IF p # None THEN Num(p.val) ELSE None

\* A tag field filled from the point's unit
TagOf_Unit(p) == IF p # None THEN Name(p.unit) ELSE None

TagOf(p) == IF p # None THEN Name(p.tag) ELSE None

\* A quick ratio without the fallback to current assets less inventory
QuickRatio_NoFallback(cash_val, ar_val, assets_cur_val, inv_val, liab_cur_val) ==
    IF Truthy(liab_cur_val)
    THEN IF cash_val # None /\ ar_val # None
         THEN SafeDiv(Num(cash_val.n + ar_val.n), liab_cur_val)
         ELSE None
    ELSE None

\* A quick ratio that does not look at the current liabilities first
QuickRatio_Unguarded(cash_val, ar_val, assets_cur_val, inv_val, liab_cur_val) ==
    LET denom == IF Truthy(liab_cur_val) THEN liab_cur_val ELSE Num(1)
    IN  IF cash_val # None /\ ar_val # None
        THEN SafeDiv(Num(cash_val.n + ar_val.n), denom)
        ELSE IF assets_cur_val # None /\ inv_val # None
        THEN SafeDiv(Num(assets_cur_val.n - inv_val.n), denom)
        ELSE None

\* quick_ratio (lines 283-288)
QuickRatio(cash_val, ar_val, assets_cur_val, inv_val, liab_cur_val) ==
    IF Truthy(liab_cur_val)
    THEN IF cash_val # None /\ ar_val # None
         THEN SafeDiv(Num(cash_val.n + ar_val.n), liab_cur_val)
         ELSE IF assets_cur_val # None /\ inv_val # None
         THEN SafeDiv(Num(assets_cur_val.n - inv_val.n), liab_cur_val)
         ELSE None
    ELSE None

\* An interest expense that keeps the sign of the reported value
IntVal_Signed(int_p) == IF int_p # None THEN Num(int_p.val) ELSE None

\* int_val = abs(int_p.val) if int_p else None (line 277)
IntVal(int_p) == IF int_p # None THEN Num(Abs(int_p.val)) ELSE None

\* _calculate_metrics_for_report
CalculateMetricsForReport(f, report_end, rep_meta) ==
    LET cash_p == PointForEnd(f, TAG_CASH, report_end)
        assets_p == PointForEnd(f, TAG_ASSETS, report_end)
        assets_cur_p == PointForEnd(f, TAG_ASSETS_CUR, report_end)
        liab_cur_p == PointForEnd(f, TAG_LIAB_CUR, report_end)
        ar_p == PointForEnd(f, TAG_AR, report_end)
        inv_p == PointForEnd(f, TAG_INV, report_end)
        oi_p == PointForEnd(f, TAG_OI, report_end)
        int_p == PointForEnd(f, TAG_INT, report_end)
        ocf_p == PointForEnd(f, TAG_OCF, report_end)
        liab == TotalLiabilitiesAtEnd(f, report_end)
        debt == TotalDebtAtEnd(f, report_end)
        cash_val == ValOf(cash_p)
        assets_val == ValOf(assets_p)
        assets_cur_val == ValOf(assets_cur_p)
        liab_cur_val == ValOf(liab_cur_p)
        ar_val == ValOf(ar_p)
        inv_val == ValOf(inv_p)
        oi_val == ValOf(oi_p)
        int_val == IntVal(int_p)
        ocf_val == ValOf(ocf_p)
    IN  [report_end |-> Str(report_end),
         report_meta |-> rep_meta,
         cash_val |-> cash_val, cash_tag |-> TagOf(cash_p),
         liab_val |-> liab.val, liab_tag |-> liab.tag,
         assets_val |-> assets_val, assets_tag |-> TagOf(assets_p),
         assets_cur_val |-> assets_cur_val, assets_cur_tag |-> TagOf(assets_cur_p),
         liab_cur_val |-> liab_cur_val, liab_cur_tag |-> TagOf(liab_cur_p),
         ar_val |-> ar_val, ar_tag |-> TagOf(ar_p),
         inv_val |-> inv_val, inv_tag |-> TagOf(inv_p),
         debt_val |-> debt.val, debt_tag |-> debt.tag,
         oi_val |-> oi_val, oi_tag |-> TagOf(oi_p),
         int_val |-> int_val, int_tag |-> TagOf(int_p),
         ocf_val |-> ocf_val, ocf_tag |-> TagOf(ocf_p),
         cash_to_liab |-> SafeDiv(cash_val, liab.val),
         current_ratio |-> SafeDiv(assets_cur_val, liab_cur_val),
         quick_ratio |-> QuickRatio(cash_val, ar_val, assets_cur_val, inv_val,
                                    liab_cur_val),
         debt_to_assets |-> SafeDiv(debt.val, assets_val),
         interest_coverage |-> SafeDiv(oi_val, int_val),
         ocf_to_debt |-> SafeDiv(ocf_val, debt.val)]

\* The keys that merge copies from the metrics (lines 372-379)
MergeKeys ==
    {"cash_val", "cash_tag", "liab_val", "liab_tag", "assets_val", "assets_tag",
     "assets_cur_val", "assets_cur_tag", "liab_cur_val", "liab_cur_tag",
     "ar_val", "ar_tag", "inv_val", "inv_tag", "debt_val", "debt_tag",
     "oi_val", "oi_tag", "int_val", "int_tag", "ocf_val", "ocf_tag",
     "cash_to_liab", "current_ratio", "quick_ratio", "debt_to_assets",
     "interest_coverage", "ocf_to_debt"}

\* The keys that merge fills from report_end and report_meta (lines 364-369)
AnchorKeys ==
    {"report_end", "age_days", "report_form", "report_fp", "report_filed", "coverage"}

\* A merge that writes nothing for a form class without metrics
Merge_SkipEmpty(metrics, prefix) ==
    [key \in {k \in {prefix} \X (AnchorKeys \cup MergeKeys) : metrics # <<>>} |->
        CASE key[2] = "report_end" -> DictGet(metrics, "report_end")
          [] key[2] = "age_days" -> DictGet(metrics["report_meta"], "age_days")
          [] key[2] = "report_form" -> DictGet(metrics["report_meta"], "form")
          [] key[2] = "report_fp" -> DictGet(metrics["report_meta"], "fp")
          [] key[2] = "report_filed" -> DictGet(metrics["report_meta"], "filed")
          [] key[2] = "coverage" -> DictGet(metrics["report_meta"], "coverage")
          [] OTHER -> DictGet(metrics, key[2])]

\* merge(metrics, prefix): the entries written to out; the key f"{prefix}{k}"
\* is the pair <<prefix, k>>
Merge(metrics, prefix) ==
    LET rep_meta == IF "report_meta" \in DOMAIN metrics
                    THEN metrics["report_meta"] ELSE <<>>
    IN  [key \in {prefix} \X (AnchorKeys \cup MergeKeys) |->
            CASE key[2] = "report_end" -> DictGet(metrics, "report_end")
              [] key[2] = "age_days" -> DictGet(rep_meta, "age_days")
              [] key[2] = "report_form" -> DictGet(rep_meta, "form")
              [] key[2] = "report_fp" -> DictGet(rep_meta, "fp")
              [] key[2] = "report_filed" -> DictGet(rep_meta, "filed")
              [] key[2] = "coverage" -> DictGet(rep_meta, "coverage")
              [] OTHER -> DictGet(metrics, key[2])]

\* build_rx_snapshot: [t |-> "return", value |-> out], or the Raise that leaves it.
\* The quarterly selector runs first, then the annual one; the metrics of a
\* class are {} when its selector returned no end.
BuildRxSnapshot(f, ev_iso, max_age) ==
    LET MetricsOf(sel) ==
            IF Truthy(sel.end) THEN CalculateMetricsForReport(f, sel.end.s, sel.meta)
            ELSE <<>>
        base == [key \in {<<"", "has_companyfacts">>, <<"", "error">>} |->
                    IF key[2] = "error" THEN Str(<<>>) ELSE Num(1)]
        Annual(q, a) ==
            IF IsRaise(a) THEN a
            ELSE [t |-> "return",
                  value |-> Merge(MetricsOf(a), "a_") @@ Merge(MetricsOf(q), "q_")
                            @@ base]
        Quarterly(q) ==
            IF IsRaise(q) THEN q
            ELSE Annual(q, LatestReportEndWithinWindow(f, ev_iso, max_age,
                                                       ANNUAL_FORMS))
    IN  Quarterly(LatestReportEndWithinWindow(f, ev_iso, max_age, QUARTERLY_FORMS))

---------------------------------------------------------------------------
(* fetch_rx_snapshot_for_case *)

CaseCik == "0000320193"

\* The three keys every record starts with (lines 406-409, 416-419)
CaseHead(cik10, entity, ev_iso) ==
    [key \in {<<"", "cik">>, <<"", "entityName">>, <<"", "event_date">>} |->
        CASE key[2] = "cik" -> Name(cik10)
          [] key[2] = "entityName" -> entity
          [] OTHER -> Str(ev_iso)]

\* The record of the except branches: has_companyfacts = 0 and the error text
\* (str(e) of the exception caught; the text given here stands for it, and
\* the text "" is the empty string of an exception that carries no message)
ErrorRecord(cik10, ev_iso, text) ==
    [key \in {<<"", "has_companyfacts">>, <<"", "error">>} |->
        IF key[2] = "error"
        THEN (IF text = "" THEN Str(<<>>) ELSE Name(text))
        ELSE Num(0)]
    @@ CaseHead(cik10, Str(<<>>), ev_iso)

\* The record of the try branch once get_company_facts has returned f
CaseRecord(f, cik10, ev_iso, built) ==
    IF IsRaise(built) THEN ErrorRecord(cik10, ev_iso, built.exc)
    ELSE built.value
         @@ CaseHead(cik10, IF Truthy(f.entityName) THEN f.entityName ELSE Str(<<>>),
                     ev_iso)

---------------------------------------------------------------------------
(* Inputs: the fact stores and event dates the cases are drawn from *)

MaxEntries == 3

D_2020_09_30 == <<50, 48, 50, 48, 45, 48, 57, 45, 51, 48>>   \* "2020-09-30"
D_2020_12_31 == <<50, 48, 50, 48, 45, 49, 50, 45, 51, 49>>   \* "2020-12-31"
D_2020_13_45 == <<50, 48, 50, 48, 45, 49, 51, 45, 52, 53>>   \* "2020-13-45"
D_2020_12 == <<50, 48, 50, 48, 45, 49, 50>>                  \* "2020-12"
D_2020_12_30 == <<50, 48, 50, 48, 45, 49, 50, 45, 51, 48>>   \* "2020-12-30"
D_2021_03_09 == <<50, 48, 50, 49, 45, 48, 51, 45, 48, 57>>   \* "2021-03-09"
D_2021_03_10 == <<50, 48, 50, 49, 45, 48, 51, 45, 49, 48>>   \* "2021-03-10"
\* "2021-02-26T16:05:11Z", a filed stamp longer than ten characters
D_2021_02_26_T == <<50, 48, 50, 49, 45, 48, 50, 45, 50, 54, 84, 49, 54, 58, 48, 53,
                    58, 49, 49, 90>>
\* "2020-12-1٣", the 13th written with the Arabic-Indic digit three (U+0663)
D_2020_12_13_ar == <<50, 48, 50, 48, 45, 49, 50, 45, 49, 1635>>
\* "20-ﬀ", whose upper case is "20-FF" (U+FB00, the ligature ff)
S_20_ff == <<50, 48, 45, 64256>>
D_2020_11_05 == <<50, 48, 50, 48, 45, 49, 49, 45, 48, 53>>   \* "2020-11-05"
D_2020_12_01 == <<50, 48, 50, 48, 45, 49, 50, 45, 48, 49>>   \* "2020-12-01"
\* "2020-12- 5": %d also reads a space and a digit, so this is 5 December
D_2020_12_s5 == <<50, 48, 50, 48, 45, 49, 50, 45, 32, 53>>
S_FY == <<70, 89>>                                           \* "FY"
S_Q3 == <<81, 51>>                                           \* "Q3"
S_10k_lower == <<49, 48, 45, 107>>                           \* "10-k"
S_NA == <<110, 47, 97>>                                      \* "n/a"

\* Event dates: 2020-09-30 is 160 days before 2021-03-09 and 161 before
\* 2021-03-10; 2020-12-31 lies after 2020-12-30.
EventPool == {D_2021_03_09, D_2021_03_10, D_2020_12_30}

RawPt(end, val, form, fp, filed) ==
    [fldEnd |-> end, fldVal |-> val, fldForm |-> form, fldFp |-> fp,
     fldFiled |-> filed, fldAccn |-> None]

Entry(concept, unit, pt) == [concept |-> concept, unit |-> unit, pt |-> pt]

\* Annual points of the period ending 2020-12-31, filed on a 10-K
AnnualPt(n) == RawPt(Str(D_2020_12_31), Num(n), Str(S_10K), Str(S_FY),
                     Str(D_2021_02_26_T))

\* Quarterly points of the period ending 2020-09-30, filed on a 10-Q
QuarterPt(n) == RawPt(Str(D_2020_09_30), Num(n), Str(S_10Q), Str(S_Q3),
                      Str(D_2020_11_05))

EntryPool ==
    {Entry("CashAndCashEquivalentsAtCarryingValue", "USD", AnnualPt(100)),
     Entry("CashCashEquivalentsRestrictedCashAndRestrictedCashEquivalents", "USD",
           AnnualPt(120)),
     Entry("Liabilities", "USD", AnnualPt(600)),
     Entry("LiabilitiesCurrent", "USD", AnnualPt(300)),
     Entry("LiabilitiesNoncurrent", "USD", AnnualPt(250)),
     Entry("DebtCurrent", "USD", AnnualPt(50)),
     Entry("LongTermDebtNoncurrent", "USD", AnnualPt(400)),
     Entry("CashAndCashEquivalentsAtCarryingValue", "USD", QuarterPt(90)),
     Entry("Liabilities", "USD", QuarterPt(580)),
     Entry("LiabilitiesCurrent", "USD", QuarterPt(310)),
     Entry("DebtCurrent", "USD", QuarterPt(40)),
     \* the year-end balance as restated on a later 10-Q
     Entry("CashAndCashEquivalentsAtCarryingValue", "USD",
           RawPt(Str(D_2020_12_31), Num(105), Str(S_10Q), None, None)),
     \* a point without a form, and one whose form is in lower case
     Entry("Assets", "USD", RawPt(Str(D_2020_09_30), Num(1000), None, None, None)),
     Entry("LongTermDebt", "USD",
           RawPt(Str(D_2020_09_30), Num(410), Str(S_10k_lower), Str(S_FY), None)),
     \* two ends of one month, the later one written with a space-padded day
     Entry("Assets", "USD", RawPt(Str(D_2020_12_01), Num(990), None, None, None)),
     Entry("Assets", "USD", RawPt(Str(D_2020_12_s5), Num(995), None, None, None)),
     \* a period end written with a digit of another script, which strptime
     \* reads as 2020-12-13, and a form that is no ASCII string
     Entry("Assets", "USD",
           RawPt(Str(D_2020_12_13_ar), Num(996), Str(S_10K), None, None)),
     Entry("Liabilities", "USD",
           RawPt(Str(D_2020_12_31), Num(596), Str(S_20_ff), None, None)),
     \* another unit
     Entry("CashAndCashEquivalentsAtCarryingValue", "EUR", AnnualPt(85)),
     \* malformed points: a period end that is no date, a period end that is too
     \* short, a value that is no number, a form that is no string
     Entry("CashAndCashEquivalentsAtCarryingValue", "USD",
           RawPt(Str(D_2020_13_45), Num(1), Str(S_10K), None, None)),
     Entry("CashAndCashEquivalentsAtCarryingValue", "USD",
           RawPt(Str(D_2020_12), Num(2), Str(S_10K), None, None)),
     Entry("Liabilities", "USD",
           RawPt(Str(D_2020_12_31), Str(S_NA), Str(S_10K), Str(S_FY), None)),
     Entry("DebtCurrent", "USD",
           RawPt(Str(D_2020_12_31), Num(3), Num(10), None, None))}

EntrySeqs == UNION {[1..n -> EntryPool] : n \in 0..MaxEntries}

\* The unit buckets of a concept after the entries were stored one by one
RECURSIVE BucketsOf(_, _)
BucketsOf(entries, concept) ==
    IF entries = <<>> THEN <<>>
    ELSE LET e == entries[Len(entries)]
             bs == BucketsOf(SubSeq(entries, 1, Len(entries) - 1), concept)
         IN  IF e.concept # concept THEN bs
             ELSE IF \E i \in 1..Len(bs) : bs[i].unit = e.unit
             THEN [i \in 1..Len(bs) |->
                      IF bs[i].unit = e.unit
                      THEN [unit |-> bs[i].unit, series |-> Append(bs[i].series, e.pt)]
                      ELSE bs[i]]
             ELSE Append(bs, [unit |-> e.unit, series |-> <<e.pt>>])

MakeStore(entries) ==
    [entityName |-> Name("ACME CORP"),
     us_gaap |-> [c \in {entries[i].concept : i \in 1..Len(entries)} |->
                     BucketsOf(entries, c)]]

Stores == {MakeStore(es) : es \in EntrySeqs}

---------------------------------------------------------------------------
(* The case: fetch_rx_snapshot_for_case(client, settings, cik10, event_iso) *)

\* One case on its own: main is not running
NoRun ==
    /\ task = None
    /\ sem = None
    /\ stats = None
    /\ reporter = None
    /\ mpc = None
    /\ modstate = None

Init ==
    /\ pc = "start"
    /\ facts = None
    /\ event_iso \in EventPool
    /\ max_age_days = MaxReportAgeDays
    /\ snap = None
    /\ record = None
    /\ div = None
    /\ NoRun

\* client.get_company_facts returns the entity's store
GetCompanyFacts ==
    /\ pc = "start"
    /\ \E f \in Stores : facts' = f
    /\ pc' = "fetched"
    /\ UNCHANGED <<event_iso, max_age_days, snap, record, div, runvars>>

\* client.get_company_facts raises: HTTP 404, another HTTP status, or any other
\* exception, with a message or without one (lines 413-440)
GetCompanyFactsRaises ==
    /\ pc = "start"
    /\ \E text \in {"404 companyfacts", "HTTPStatusError", "RequestError", ""} :
           record' = ErrorRecord(CaseCik, event_iso, text)
    /\ pc' = "done"
    /\ UNCHANGED <<facts, event_iso, max_age_days, snap, div, runvars>>

\* build_rx_snapshot(facts, event_iso, max_age_days) runs to its return or raise
BuildSnapshot ==
    /\ pc = "fetched"
    /\ snap' = BuildRxSnapshot(facts, event_iso, max_age_days)
    /\ pc' = "built"
    /\ UNCHANGED <<facts, event_iso, max_age_days, record, div, runvars>>

\* The record is returned: the snapshot under the case keys, or the error
\* record of the handler that caught the exception
ReturnRecord ==
    /\ pc = "built"
    /\ record' = CaseRecord(facts, CaseCik, event_iso, snap)
    /\ pc' = "done"
    /\ UNCHANGED <<facts, event_iso, max_age_days, snap, div, runvars>>

Next == GetCompanyFacts \/ GetCompanyFactsRaises \/ BuildSnapshot \/ ReturnRecord

Spec == Init /\ [][Next]_vars

---------------------------------------------------------------------------
(* safe_div on its own: every pair of optional operands *)

MaxOperand == 6

Operands == {None} \cup {Num(n) : n \in (-MaxOperand)..MaxOperand}

\* The call has not returned yet
Pending == [t |-> "pending"]

InitDiv ==
    /\ pc = "safe_div"
    /\ facts = None
    /\ event_iso = D_2021_03_09
    /\ max_age_days = MaxReportAgeDays
    /\ snap = None
    /\ record = None
    /\ \E x \in Operands : \E y \in Operands : div = [a |-> x, b |-> y, ret |-> Pending]
    /\ NoRun

\* safe_div(a, b) runs to its return
SafeDivCall ==
    /\ pc = "safe_div"
    /\ div' = [div EXCEPT !.ret = SafeDiv(div.a, div.b)]
    /\ pc' = "returned"
    /\ UNCHANGED <<facts, event_iso, max_age_days, snap, record, runvars>>

NextDiv == SafeDivCall

SpecDiv == InitDiv /\ [][NextDiv]_vars

---------------------------------------------------------------------------
(* The engine on stores that hold the inputs of the liquidity ratios: every *)
(* combination of cash, receivables, current assets and inventory, with     *)
(* current liabilities absent, zero or positive, all at the end 2020-12-31  *)

RatioStores ==
    {MakeStore(c \o r \o ac \o i \o l) :
        c \in {<<>>, <<Entry("CashAndCashEquivalentsAtCarryingValue", "USD",
                              AnnualPt(100))>>},
        r \in {<<>>, <<Entry("AccountsReceivableNetCurrent", "USD", AnnualPt(50))>>},
        ac \in {<<>>, <<Entry("AssetsCurrent", "USD", AnnualPt(500))>>},
        i \in {<<>>, <<Entry("InventoryNet", "USD", AnnualPt(200))>>},
        l \in {<<>>, <<Entry("LiabilitiesCurrent", "USD", AnnualPt(300))>>,
               <<Entry("LiabilitiesCurrent", "USD", AnnualPt(0))>>}}

\* client.get_company_facts returns one of these stores
GetCompanyFactsRatios ==
    /\ pc = "start"
    /\ \E f \in RatioStores : facts' = f
    /\ pc' = "fetched"
    /\ UNCHANGED <<event_iso, max_age_days, snap, record, div, runvars>>

NextRatios == GetCompanyFactsRatios \/ BuildSnapshot \/ ReturnRecord

SpecRatios == Init /\ [][NextRatios]_vars

---------------------------------------------------------------------------
(* The engine on stores that hold operating income and interest expense at  *)
(* the end 2020-12-31, each absent, positive, negative or zero              *)

InterestStores ==
    {MakeStore(oi \o ie) :
        oi \in {<<>>} \cup {<<Entry("OperatingIncomeLoss", "USD", AnnualPt(n))>> :
                                n \in {200, -120, 0}},
        ie \in {<<>>} \cup {<<Entry("InterestExpense", "USD", AnnualPt(n))>> :
                                n \in {40, -40, 0}}}

\* client.get_company_facts returns one of these stores
GetCompanyFactsInterest ==
    /\ pc = "start"
    /\ \E f \in InterestStores : facts' = f
    /\ pc' = "fetched"
    /\ UNCHANGED <<event_iso, max_age_days, snap, record, div, runvars>>

NextInterest == GetCompanyFactsInterest \/ BuildSnapshot \/ ReturnRecord

SpecInterest == Init /\ [][NextInterest]_vars

---------------------------------------------------------------------------
(* The engine on partially covered stores: cash, total liabilities, assets, *)
(* current debt, operating cash flow, operating income and interest expense *)
(* each absent or present (the three denominators also zero), and the       *)
(* stores of the liquidity ratios, under the event dates 2021-02-01 and     *)
(* 2021-03-09                                                               *)

D_2021_02_01 == <<50, 48, 50, 49, 45, 48, 50, 45, 48, 49>>   \* "2021-02-01"

\* A point of the period ending 2020-12-31 that carries the form 10-K only
TenKPt(n) == RawPt(Str(D_2020_12_31), Num(n), Str(S_10K), None, None)

PartialStores ==
    {MakeStore(c \o l \o a \o d \o ocf \o oi \o ie) :
        c \in {<<>>, <<Entry("CashAndCashEquivalentsAtCarryingValue", "USD",
                              TenKPt(100))>>},
        l \in {<<>>, <<Entry("Liabilities", "USD", TenKPt(600))>>,
               <<Entry("Liabilities", "USD", TenKPt(0))>>},
        a \in {<<>>, <<Entry("Assets", "USD", TenKPt(1000))>>,
               <<Entry("Assets", "USD", TenKPt(0))>>},
        d \in {<<>>, <<Entry("DebtCurrent", "USD", TenKPt(50))>>,
               <<Entry("DebtCurrent", "USD", TenKPt(0))>>},
        ocf \in {<<>>, <<Entry("NetCashProvidedByUsedInOperatingActivities", "USD",
                                TenKPt(80))>>},
        oi \in {<<>>, <<Entry("OperatingIncomeLoss", "USD", TenKPt(200))>>},
        ie \in {<<>>, <<Entry("InterestExpense", "USD", TenKPt(40))>>,
                <<Entry("InterestExpense", "USD", TenKPt(0))>>}}
    \cup RatioStores

\* The case of one of the two event dates, before the fetch
InitPartial ==
    /\ pc = "start"
    /\ facts = None
    /\ event_iso \in {D_2021_02_01, D_2021_03_09}
    /\ max_age_days = MaxReportAgeDays
    /\ snap = None
    /\ record = None
    /\ div = None
    /\ NoRun

\* client.get_company_facts returns one of these stores
GetCompanyFactsPartial ==
    /\ pc = "start"
    /\ \E f \in PartialStores : facts' = f
    /\ pc' = "fetched"
    /\ UNCHANGED <<event_iso, max_age_days, snap, record, div, runvars>>

NextPartial == GetCompanyFactsPartial \/ BuildSnapshot \/ ReturnRecord

SpecPartial == InitPartial /\ [][NextPartial]_vars

---------------------------------------------------------------------------
(* The engine on stores of up to MaxTagEntries entries drawn from every     *)
(* concept of the nine primitive tag chains at the end 2020-12-31           *)

MaxTagEntries == 2

TagEntryPool ==
    {Entry(TAG_CASH[1], "USD", TenKPt(100)),
     Entry(TAG_CASH[2], "USD", TenKPt(120)),
     Entry(TAG_CASH[1], "EUR", TenKPt(85)),
     Entry(TAG_ASSETS[1], "USD", TenKPt(1000)),
     Entry(TAG_ASSETS_CUR[1], "USD", TenKPt(500)),
     Entry(TAG_LIAB_CUR[1], "USD", TenKPt(300)),
     Entry(TAG_AR[1], "USD", TenKPt(50)),
     Entry(TAG_AR[2], "USD", TenKPt(55)),
     Entry(TAG_AR[1], "USD",
           RawPt(Str(D_2020_12_31), Str(S_NA), Str(S_10K), None, None)),
     Entry(TAG_INV[1], "USD", TenKPt(200)),
     Entry(TAG_OI[1], "USD", TenKPt(-120)),
     Entry(TAG_INT[1], "USD", TenKPt(-40)),
     Entry(TAG_OCF[1], "USD", TenKPt(80)),
     Entry(TAG_OCF[2], "USD", TenKPt(75)),
     Entry(TAG_OCF[2], "USD", RawPt(Str(D_2020_09_30), Num(60), None, None, None))}

TagStores ==
    {MakeStore(es) : es \in UNION {[1..n -> TagEntryPool] : n \in 0..MaxTagEntries}}

\* client.get_company_facts returns one of these stores
GetCompanyFactsTags ==
    /\ pc = "start"
    /\ \E f \in TagStores : facts' = f
    /\ pc' = "fetched"
    /\ UNCHANGED <<event_iso, max_age_days, snap, record, div, runvars>>

NextTags == GetCompanyFactsTags \/ BuildSnapshot \/ ReturnRecord

SpecTags == Init /\ [][NextTags]_vars

---------------------------------------------------------------------------
(* The engine on stores that hold any subset of the thirteen base concepts  *)
(* at the end 2020-12-31                                                    *)

\* The first concept of every tag chain of the coverage scoring
CoverageConcepts ==
    <<TAG_CASH[1], TAG_LIAB_TOTAL[1], TAG_LIAB_CUR[1], TAG_LIAB_NONCUR[1],
      TAG_ASSETS[1], TAG_ASSETS_CUR[1], TAG_AR[1], TAG_INV[1], TAG_DEBT_CUR[1],
      TAG_DEBT_LT[1], TAG_OI[1], TAG_INT[1], TAG_OCF[1]>>

CoverageEntries ==
    [k \in 1..Len(CoverageConcepts) |->
        Entry(CoverageConcepts[k], "USD", AnnualPt(100 + k))]

CoverageStores ==
    {MakeStore(SelectSeq(CoverageEntries, LAMBDA e : e.concept \in cs)) :
        cs \in SUBSET {CoverageConcepts[k] : k \in 1..Len(CoverageConcepts)}}

\* The case of the event date 2021-03-09, before the fetch
InitCoverage ==
    /\ pc = "start"
    /\ facts = None
    /\ event_iso = D_2021_03_09
    /\ max_age_days = MaxReportAgeDays
    /\ snap = None
    /\ record = None
    /\ div = None
    /\ NoRun

\* client.get_company_facts returns one of these stores
GetCompanyFactsCoverage ==
    /\ pc = "start"
    /\ \E f \in CoverageStores : facts' = f
    /\ pc' = "fetched"
    /\ UNCHANGED <<event_iso, max_age_days, snap, record, div, runvars>>

NextCoverage == GetCompanyFactsCoverage \/ BuildSnapshot \/ ReturnRecord

SpecCoverage == InitCoverage /\ [][NextCoverage]_vars

---------------------------------------------------------------------------
(* The objects of the engine (lines 45-386). A Python name is bound to an   *)
(* object, and a call of a mutating method changes the object for every     *)
(* holder of it. An object an invocation touches is an object of the store  *)
(* (the facts argument and the dicts and lists it holds), an object of      *)
(* module level (the tag chains and form sets imported from config.py), or  *)
(* an object the invocation has created. Strings, numbers, dates, tuples    *)
(* and Point (a frozen dataclass) cannot change: the names bound to them    *)
(* are left out.                                                            *)

\* The methods of dict, list and set that change the object they are called on
Mutators ==
    {"__setitem__", "__delitem__", "setdefault", "update", "pop", "popitem",
     "clear", "append", "extend", "insert", "remove", "sort", "reverse", "add",
     "discard"}

\* A statement that binds a name of a function to an object. how is
\*   "param":  the facts argument of build_rx_snapshot;
\*   "module": an object of module level;
\*   "new":    an object the statement creates (a display, a call of dict);
\*   "same":   the object of the name `of` (an argument passed on, a value
\*             returned or yielded);
\*   "member": an object held by the object of `of` (the target of a for);
\*   "get":    of.get(key, {}) or {}: the object held under the key where
\*             there is one and it is truthy, else a new dict.
Bind(name, line, how, of, key) ==
    [name |-> name, line |-> line, how |-> how, of |-> of, key |-> key]

\* The calls of one method on the object of a name, and their lines
Call(name, method, lines) == [name |-> name, method |-> method, lines |-> lines]

\* _iter_tag_points: facts comes from the calls at lines 78 and 130
IterTagPointsBinds ==
    {Bind("_iter_tag_points.facts", 45, "same", "point_for_end.facts", ""),
     Bind("_iter_tag_points.facts", 45, "same",
          "latest_report_end_within_window.facts", ""),
     Bind("_iter_tag_points.us_gaap", 46, "get", "_iter_tag_points.facts", "us-gaap"),
     Bind("_iter_tag_points.node", 47, "get", "_iter_tag_points.us_gaap", "tag"),
     Bind("_iter_tag_points.units", 48, "get", "_iter_tag_points.node", "units"),
     Bind("_iter_tag_points.series", 49, "member", "_iter_tag_points.units", ""),
     Bind("_iter_tag_points.pt", 51, "member", "_iter_tag_points.series", "")}

\* An accessor that inserts the concept it looks up: us_gaap.setdefault(tag, {})
IterTagPointsCalls_SetDefault ==
    {Call("_iter_tag_points.facts", "get", {46}),
     Call("_iter_tag_points.us_gaap", "setdefault", {47}),
     Call("_iter_tag_points.node", "get", {48}),
     Call("_iter_tag_points.units", "items", {49}),
     Call("_iter_tag_points.series", "__iter__", {51})}

\* _iter_tag_points (the second get of line 46 is on the dict facts holds
\* under "facts")
IterTagPointsCalls ==
    {Call("_iter_tag_points.facts", "get", {46}),
     Call("_iter_tag_points.us_gaap", "get", {47}),
     Call("_iter_tag_points.node", "get", {48}),
     Call("_iter_tag_points.units", "items", {49}),
     Call("_iter_tag_points.series", "__iter__", {51})}

\* point_for_end: called at lines 176-193, 205-210, 224-225 and 257-265 with
\* a tag chain of module level (at line 193 through the name tags)
PointForEndBinds ==
    {Bind("point_for_end.facts", 69, "same",
          "latest_report_end_within_window.facts", ""),
     Bind("point_for_end.facts", 69, "same", "total_liabilities_at_end.facts", ""),
     Bind("point_for_end.facts", 69, "same", "total_debt_at_end.facts", ""),
     Bind("point_for_end.facts", 69, "same",
          "_calculate_metrics_for_report.facts", ""),
     Bind("point_for_end.tag_candidates", 70, "module", "", ""),
     Bind("point_for_end.tag_candidates", 70, "same",
          "latest_report_end_within_window.tags", ""),
     Bind("point_for_end.pt", 78, "same", "_iter_tag_points.pt", "")}

PointForEndCalls ==
    {Call("point_for_end.tag_candidates", "__iter__", {77}),
     Call("point_for_end.pt", "get", {79, 83} \cup 92..95)}

\* latest_report_end_within_window: allowed_forms is QUARTERLY_FORMS or
\* ANNUAL_FORMS (lines 341, 350), and the values of base_inputs are the tag
\* chains of module level
LatestReportEndWithinWindowBinds ==
    {Bind("latest_report_end_within_window.facts", 109, "same",
          "build_rx_snapshot.facts", ""),
     Bind("latest_report_end_within_window.allowed_forms", 113, "module", "", ""),
     Bind("latest_report_end_within_window.ends_meta", 124, "new", "", ""),
     Bind("latest_report_end_within_window.ends_coverage", 125, "new", "", ""),
     Bind("ANCHOR_TAGS", 14, "module", "", ""),
     Bind("latest_report_end_within_window.tag_list", 128, "member", "ANCHOR_TAGS", ""),
     Bind("latest_report_end_within_window.pt", 130, "same", "_iter_tag_points.pt", ""),
     Bind("latest_report_end_within_window.base_inputs", 158, "new", "", ""),
     Bind("latest_report_end_within_window.tags", 190, "module", "", ""),
     Bind("latest_report_end_within_window.meta", 199, "new", "", "")}

LatestReportEndWithinWindowCalls ==
    {Call("ANCHOR_TAGS", "__iter__", {128}),
     Call("latest_report_end_within_window.tag_list", "__iter__", {129}),
     Call("latest_report_end_within_window.pt", "get", {131, 135} \cup 148..150),
     Call("latest_report_end_within_window.allowed_forms", "__contains__", {136}),
     Call("latest_report_end_within_window.ends_meta", "setdefault", {147}),
     Call("latest_report_end_within_window.ends_meta", "__bool__", {154}),
     Call("latest_report_end_within_window.ends_meta", "keys", {173, 198}),
     Call("latest_report_end_within_window.base_inputs", "items", {190}),
     Call("latest_report_end_within_window.ends_coverage", "__setitem__", {195}),
     Call("latest_report_end_within_window.ends_coverage", "get", {198, 200}),
     Call("latest_report_end_within_window.ends_meta", "__getitem__", {199}),
     Call("latest_report_end_within_window.meta", "__setitem__", {200})}

\* total_liabilities_at_end calls point_for_end and returns new dicts
TotalLiabilitiesAtEndBinds ==
    {Bind("total_liabilities_at_end.facts", 204, "same",
          "_calculate_metrics_for_report.facts", "")}

TotalDebtAtEndBinds ==
    {Bind("total_debt_at_end.facts", 223, "same",
          "_calculate_metrics_for_report.facts", ""),
     Bind("total_debt_at_end.used", 231, "new", "", ""),
     Bind("total_debt_at_end.meta", 232, "new", "", ""),
     Bind("total_debt_at_end.meta", 237, "new", "", ""),
     Bind("total_debt_at_end.meta", 242, "new", "", "")}

TotalDebtAtEndCalls ==
    {Call("total_debt_at_end.used", "append", {236, 240}),
     Call("total_debt_at_end.meta", "__bool__", {241}),
     Call("total_debt_at_end.used", "__iter__", {244})}

\* _calculate_metrics_for_report calls point_for_end and the two totals,
\* whose dicts (new ones, or the meta of total_debt_at_end) it binds to _, and
\* returns a new dict that holds rep_meta
CalculateMetricsForReportBinds ==
    {Bind("_calculate_metrics_for_report.facts", 255, "same",
          "build_rx_snapshot.facts", ""),
     Bind("_calculate_metrics_for_report.rep_meta", 255, "same",
          "build_rx_snapshot.q_meta", ""),
     Bind("_calculate_metrics_for_report.rep_meta", 255, "same",
          "build_rx_snapshot.a_meta", ""),
     Bind("_calculate_metrics_for_report._", 267, "new", "", ""),
     Bind("_calculate_metrics_for_report._", 268, "new", "", ""),
     Bind("_calculate_metrics_for_report._", 268, "same", "total_debt_at_end.meta", "")}

\* build_rx_snapshot and its helper merge: q_meta and a_meta are the meta of
\* line 201 or the {} of line 155, q_metrics and a_metrics the dict of line
\* 293 or a {}; merge reads out from the scope of build_rx_snapshot
BuildRxSnapshotBinds ==
    {Bind("build_rx_snapshot.facts", 330, "param", "", ""),
     Bind("build_rx_snapshot.q_meta", 340, "same",
          "latest_report_end_within_window.meta", ""),
     Bind("build_rx_snapshot.q_meta", 340, "new", "", ""),
     Bind("build_rx_snapshot.q_metrics", 344, "new", "", ""),
     Bind("build_rx_snapshot.q_metrics", 346, "new", "", ""),
     Bind("build_rx_snapshot.a_meta", 349, "same",
          "latest_report_end_within_window.meta", ""),
     Bind("build_rx_snapshot.a_meta", 349, "new", "", ""),
     Bind("build_rx_snapshot.a_metrics", 353, "new", "", ""),
     Bind("build_rx_snapshot.a_metrics", 355, "new", "", ""),
     Bind("build_rx_snapshot.out", 358, "new", "", ""),
     Bind("build_rx_snapshot.merge.out", 361, "same", "build_rx_snapshot.out", ""),
     Bind("build_rx_snapshot.merge.metrics", 361, "same",
          "build_rx_snapshot.q_metrics", ""),
     Bind("build_rx_snapshot.merge.metrics", 361, "same",
          "build_rx_snapshot.a_metrics", ""),
     Bind("build_rx_snapshot.merge.rep_meta", 363, "same",
          "_calculate_metrics_for_report.rep_meta", ""),
     Bind("build_rx_snapshot.merge.rep_meta", 363, "new", "", ""),
     Bind("build_rx_snapshot.merge.keys", 372, "new", "", "")}

BuildRxSnapshotCalls ==
    {Call("build_rx_snapshot.merge.metrics", "get", {363, 364, 381}),
     Call("build_rx_snapshot.merge.rep_meta", "get", 365..369),
     Call("build_rx_snapshot.merge.out", "__setitem__", 364..369 \cup {381}),
     Call("build_rx_snapshot.merge.keys", "__iter__", {380})}

EngineBinds ==
    IterTagPointsBinds \cup PointForEndBinds \cup LatestReportEndWithinWindowBinds
    \cup TotalLiabilitiesAtEndBinds \cup TotalDebtAtEndBinds
    \cup CalculateMetricsForReportBinds \cup BuildRxSnapshotBinds

EngineCalls ==
    IterTagPointsCalls \cup PointForEndCalls \cup LatestReportEndWithinWindowCalls
    \cup TotalDebtAtEndCalls \cup BuildRxSnapshotCalls

\* The tags _iter_tag_points is called with: those of the anchor chains (line
\* 130) and of the chains point_for_end is given
EngineTags ==
    UNION {{ANCHOR_TAGS[k][j] : j \in 1..Len(ANCHOR_TAGS[k])} :
              k \in 1..Len(ANCHOR_TAGS)}
    \cup {TAG_LIAB_NONCUR[j] : j \in 1..Len(TAG_LIAB_NONCUR)}

\* Whether the get that binds a name of _iter_tag_points finds, for this tag,
\* a truthy object in the store: the dict of the concepts when it holds a
\* concept, the node of the tag, the units of the node when there is a unit
Found(key, f, tag) ==
    CASE key = "us-gaap" -> DOMAIN f.us_gaap # {}
      [] key = "tag" -> tag \in DOMAIN f.us_gaap
      [] OTHER -> tag \in DOMAIN f.us_gaap /\ f.us_gaap[tag] # <<>>

\* Where the objects live that a name may be bound to when the engine runs
\* on store f and the accessor is called with this tag: "store", "module" or
\* "local" (created by the invocation). The target of a for over a new, empty
\* container is never bound.
RECURSIVE RegionsOf(_, _, _)
RegionsOf(name, f, tag) ==
    UNION {CASE b.how = "param" -> {"store"}
             [] b.how = "module" -> {"module"}
             [] b.how = "new" -> {"local"}
             [] b.how = "same" -> RegionsOf(b.of, f, tag)
             [] b.how = "member" -> RegionsOf(b.of, f, tag) \ {"local"}
             [] OTHER -> IF Found(b.key, f, tag) THEN RegionsOf(b.of, f, tag)
                         ELSE {"local"}
           : b \in {x \in EngineBinds : x.name = name}}

\* The calls of mutating methods an invocation on store f may make, each with
\* the region of the object it changes
EngineWrites(f) ==
    UNION {UNION {{[line |-> l, name |-> c.name, method |-> c.method, region |-> r] :
                      l \in c.lines, r \in RegionsOf(c.name, f, tag)} :
                     tag \in EngineTags} :
              c \in {x \in EngineCalls : x.method \in Mutators}}

\* The store after the call: the store as it was when no mutating call has
\* reached an object of it, and else a store the model says nothing about
\* but that it was written, and where
StoreAfter(f, writes) ==
    IF \E w \in writes : w.region = "store"
    THEN [t |-> "written", by |-> {w \in writes : w.region = "store"}]
    ELSE f

\* The mutating calls that have reached objects of module level, after the
\* call
ModuleAfter(m, writes) == m \cup {w \in writes : w.region = "module"}

---------------------------------------------------------------------------
(* The run of main (src/main.py) over NumCases cases: one task per case     *)
(* runs fetch_rx_snapshot_for_case through EdgarAsyncClient._get_json       *)
(* (semaphore, limiter, request, retry), records the unit done, and         *)
(* progress_reporter runs beside them until main sets finished.             *)
(* A step is what a coroutine does between two suspensions of the asyncio   *)
(* event loop: an acquire of the uncontended RunStats lock does not         *)
(* suspend, so record_request, record_unit_done and snapshot are part of    *)
(* the step that calls them. Latencies and gaps (clock readings) are not    *)
(* modelled.                                                                *)

NumCases == 2

\* settings.max_concurrency (MAX_CONCURRENCY), the slots of the semaphore
MaxConcurrency == 1

\* stop_after_attempt(4)
MaxAttempts == 4

Cases == 1..NumCases

\* The (cik10, event_iso) of case i: the odd cases are one entity under two
\* event dates, the even ones another entity
CaseOf(i) ==
    [cik10 |-> IF i % 2 = 1 THEN "0000320193" ELSE "0000789019",
     event_iso |-> IF i <= 2 THEN D_2021_03_09 ELSE D_2021_02_01]

\* The company facts the server holds for an entity
CompanyFactsOf(cik10) ==
    IF cik10 = "0000320193"
    THEN MakeStore(<<Entry("Liabilities", "USD", TenKPt(600)),
                     Entry("Assets", "USD", TenKPt(1000))>>)
    ELSE MakeStore(<<Entry("CashAndCashEquivalentsAtCarryingValue", "USD",
                           QuarterPt(90)),
                     Entry("LiabilitiesCurrent", "USD", QuarterPt(310)),
                     Entry("CashAndCashEquivalentsAtCarryingValue", "USD",
                           AnnualPt(100))>>)

\* What one HTTP attempt ends with: a response of status 200 (with a JSON body
\* or with a body that is no JSON), 404 or 500, or a request error
Outcomes == {"200", "404", "500", "RequestError", "bad_json"}

\* retry_if_exception_type((httpx.RequestError, httpx.HTTPStatusError)):
\* raise_for_status raises HTTPStatusError on 404 and 500
Retryable == {"404", "500", "RequestError"}

\* A retry policy that stops one attempt later
ShouldRetry_OneMore(attempt, outcome) ==
    outcome \in Retryable /\ attempt <= MaxAttempts

\* tenacity: retry while the exception is retryable and the attempt is not the
\* last (lines 198-203)
ShouldRetry(attempt, outcome) ==
    outcome \in Retryable /\ attempt < MaxAttempts

\* A semaphore that always lets a task in
SlotFree_Always(value) == TRUE

\* asyncio.Semaphore: acquire returns at once iff the value is positive
SlotFree(value) == value > 0

\* A reporter that does not look at finished
ReporterStops_DoneOnly(finished, done, total) == done >= total

\* if stats.finished and int(snap["done"]) >= int(snap["total"]): break
ReporterStops(finished, done, total) == finished /\ done >= total

\* build_rx_snapshot(facts, ...) called by a task when the objects of module
\* level are as the invocations before it have left them (m): the store and
\* the objects of module level after the call, and the outcome of the call.
\* The engine reads the tag chains and form sets of module level: the outcome
\* is the one of the chains of config.py while no call has changed them, and
\* the model does not determine it once one has.
RunEngine(f, m, ev_iso) ==
    [facts |-> StoreAfter(f, EngineWrites(f)),
     modstate |-> ModuleAfter(m, EngineWrites(f)),
     built |-> IF m = {} THEN BuildRxSnapshot(f, ev_iso, MaxReportAgeDays)
               ELSE [t |-> "undetermined", written |-> m]]

\* str(e) of the exception an attempt with this outcome ends in: the message
\* raise_for_status and EdgarError are built with is never empty, a request
\* error (a timeout of httpx) may carry none; "" also where nothing is raised
Messages(outcome) ==
    CASE outcome \in {"404", "500"} -> {"HTTPStatusError"}
      [] outcome = "RequestError" -> {"RequestError", ""}
      [] outcome = "bad_json" -> {"EdgarError"}
      [] OTHER -> {""}

\* The text of the error record for a fetch that failed on this outcome with
\* an exception of this message (lines 413-440)
ErrorText(outcome, msg) ==
    IF outcome = "404" THEN "404 companyfacts" ELSE msg

\* stats.record_request: the HTTP counters after a response (no response, no
\* record, when the request raised)
RecordRequest(st, outcome) ==
    CASE outcome \in {"200", "bad_json"} -> [st EXCEPT !.http_200 = @ + 1]
      [] outcome = "404" -> [st EXCEPT !.http_404 = @ + 1]
      [] outcome = "500" -> [st EXCEPT !.http_other = @ + 1]
      [] OTHER -> st

\* stats.record_unit_done
RecordUnitDone(st) == [st EXCEPT !.done_units = @ + 1]

\* The task of case c once get_company_facts has returned the store f, the
\* entity name was read from it and the engine has run on it (lines 397-411)
Fetched(t, o, c, f, run) ==
    [t EXCEPT !.pc = "done", !.resp = o, !.msg = "", !.facts = run.facts,
              !.result = IF run.built.t = "undetermined" THEN run.built
                         ELSE CaseRecord(f, c.cik10, c.event_iso, run.built)]

\* The objects of module level once the call of case c has ended for good
\* with outcome o: the engine has run iff the store was fetched
ModuleLeft(o, c, m) ==
    IF o = "200" THEN ModuleAfter(m, EngineWrites(CompanyFactsOf(c.cik10))) ELSE m

\* The task of case c once its call has ended for good with outcome o: the
\* record of the try branch, or of the except branches (lines 413-440)
TaskReturned(t, o, msg, c, m) ==
    IF o = "200"
    THEN Fetched(t, o, c, CompanyFactsOf(c.cik10),
                 RunEngine(CompanyFactsOf(c.cik10), m, c.event_iso))
    ELSE [t EXCEPT !.pc = "done", !.resp = o, !.msg = msg,
                   !.result = ErrorRecord(c.cik10, c.event_iso,
                                          ErrorText(o, msg))]

InitRun ==
    /\ pc = "main"
    /\ facts = None
    /\ event_iso = D_2021_03_09
    /\ max_age_days = MaxReportAgeDays
    /\ snap = None
    /\ record = None
    /\ div = None
    /\ task = [i \in Cases |->
                 [pc |-> "start", attempt |-> 1, resp |-> None, msg |-> "", facts |-> None,
                  result |-> None]]
    /\ sem = MaxConcurrency
    /\ stats = [total_units |-> NumCases, done_units |-> 0, finished |-> FALSE,
                http_200 |-> 0, http_404 |-> 0, http_other |-> 0]
    /\ reporter = "running"
    /\ mpc = "gather"
    /\ modstate = {}

casevars == <<pc, facts, event_iso, max_age_days, snap, record, div>>

\* async with self._sem: task i, at its first attempt or after the wait of a
\* retry, takes a slot
Acquire(i) ==
    /\ task[i].pc = "start"
    /\ SlotFree(sem)
    /\ sem' = sem - 1
    /\ task' = [task EXCEPT ![i].pc = "limiter"]
    /\ UNCHANGED <<casevars, stats, reporter, mpc, modstate>>

\* async with self.limiter: the rate limiter lets the request through
PassLimiter(i) ==
    /\ task[i].pc = "limiter"
    /\ task' = [task EXCEPT ![i].pc = "request"]
    /\ UNCHANGED <<casevars, sem, stats, reporter, mpc, modstate>>

\* The request of task i ends with outcome o, in an exception of message msg
\* where it raises. The task records the response,
\* leaves the semaphore, and then either waits for a retry, or runs the
\* engine on the store and returns the record, or returns the error record;
\* a task that returns records its unit done (main.py:46-50).
Respond(i, o, msg) ==
    /\ task[i].pc = "request"
    /\ sem' = sem + 1
    /\ IF ShouldRetry(task[i].attempt, o)
       THEN /\ task' = [task EXCEPT ![i].pc = "start", ![i].attempt = @ + 1,
                                     ![i].resp = o]
            /\ stats' = RecordRequest(stats, o)
            /\ modstate' = modstate
       ELSE /\ stats' = RecordUnitDone(RecordRequest(stats, o))
            /\ task' = [task EXCEPT ![i] = TaskReturned(task[i], o, msg, CaseOf(i),
                                                        modstate)]
            /\ modstate' = ModuleLeft(o, CaseOf(i), modstate)
    /\ UNCHANGED <<casevars, reporter, mpc>>

\* One round of progress_reporter: snapshot, live.update, then break or sleep
ReporterTick ==
    /\ reporter = "running"
    /\ reporter' =
          IF ReporterStops(stats.finished, stats.done_units, stats.total_units)
          THEN "stopped" ELSE "running"
    /\ UNCHANGED <<casevars, task, sem, stats, mpc, modstate>>

\* asyncio.gather returns when every task has returned; main writes the
\* results (which may raise) and its finally block sets stats.finished
GatherReturns ==
    /\ mpc = "gather"
    /\ \A i \in Cases : task[i].pc = "done"
    /\ stats' = [stats EXCEPT !.finished = TRUE]
    /\ \E written \in BOOLEAN :
          mpc' = IF written THEN "await_reporter" ELSE "await_reporter_raising"
    /\ UNCHANGED <<casevars, task, sem, reporter, modstate>>

\* await reporter returns once the reporter has stopped; main returns 0 or
\* lets the exception of the write through
MainExits ==
    /\ mpc \in {"await_reporter", "await_reporter_raising"}
    /\ reporter = "stopped"
    /\ mpc' = IF mpc = "await_reporter" THEN "returned" ELSE "raised"
    /\ UNCHANGED <<casevars, task, sem, stats, reporter, modstate>>

NextRun ==
    \/ \E i \in Cases : Acquire(i)
    \/ \E i \in Cases : PassLimiter(i)
    \/ \E i \in Cases : \E o \in Outcomes : \E msg \in Messages(o) : Respond(i, o, msg)
    \/ ReporterTick
    \/ GatherReturns
    \/ MainExits

SpecRun == InitRun /\ [][NextRun]_vars

\* The event loop runs every coroutine that is ready: the reporter's sleep
\* ends, a request ends (response or the timeout of settings.timeout_seconds),
\* the limiter's period and the wait before a retry pass, main resumes, and
\* a task that waits for the semaphore is resumed when a slot stays free.
\* Nothing is assumed about the order in which the semaphore serves the
\* tasks that wait.
FairRun ==
    /\ WF_vars(ReporterTick)
    /\ WF_vars(GatherReturns)
    /\ WF_vars(MainExits)
    /\ \A i \in Cases :
          /\ WF_vars(Acquire(i))
          /\ WF_vars(PassLimiter(i))
          /\ WF_vars(\E o \in Outcomes : \E msg \in Messages(o) : Respond(i, o, msg))

SpecRunFair == SpecRun /\ FairRun

---------------------------------------------------------------------------
(* What the claims speak about, read off the store itself *)

\* Every raw entry of the store with its place: concept, bucket b, index i
Places(f) ==
    UNION {UNION {{[concept |-> c, b |-> b, i |-> i] :
                      i \in 1..Len(f.us_gaap[c][b].series)} :
                  b \in 1..Len(f.us_gaap[c])} :
           c \in DOMAIN f.us_gaap}

UnitAt(f, p) == f.us_gaap[p.concept][p.b].unit

PtAt(f, p) == f.us_gaap[p.concept][p.b].series[p.i]

InChain(chain, concept) == \E k \in 1..Len(chain) : chain[k] = concept

ChainIndex(chain, concept) == CHOOSE k \in 1..Len(chain) : chain[k] = concept

\* The entry at p is a numeric point whose period end is exactly end
NumericAt(f, p, end) ==
    /\ PtAt(f, p).fldEnd.t = "str"
    /\ Len(PtAt(f, p).fldEnd.s) >= 10
    /\ SubSeq(PtAt(f, p).fldEnd.s, 1, 10) = end
    /\ PtAt(f, p).fldVal.t = "num"

\* Some concept of the chain has a numeric point at end
Resolves(f, chain, end) ==
    \E p \in Places(f) : InChain(chain, p.concept) /\ NumericAt(f, p, end)

\* The ten-character period ends that occur in the store
StoreEnds(f) ==
    {SubSeq(PtAt(f, p).fldEnd.s, 1, 10) :
        p \in {x \in Places(f) : /\ PtAt(f, x).fldEnd.t = "str"
                                 /\ Len(PtAt(f, x).fldEnd.s) >= 10}}

TagChains == {TAG_CASH, TAG_LIAB_TOTAL, TAG_LIAB_CUR, TAG_LIAB_NONCUR, TAG_ASSETS,
              TAG_ASSETS_CUR, TAG_AR, TAG_INV, TAG_DEBT_CUR, TAG_DEBT_LT, TAG_OI,
              TAG_INT, TAG_OCF}

FormClasses == {QUARTERLY_FORMS, ANNUAL_FORMS}


\* ------------------------------------------------------------------ C1
\* C1: tag-chain precedence. For every chain and period end: if two or more
\* concepts of the chain have a numeric point at that end in USD, point_for_end
\* returns a point of the earliest of those concepts in the chain.
C1_TagChainPrecedence ==
    pc = "built" =>
        \A chain \in TagChains : \A end \in StoreEnds(facts) :
            LET usd == {p \in Places(facts) :
                            /\ InChain(chain, p.concept)
                            /\ NumericAt(facts, p, end)
                            /\ UnitAt(facts, p) = "USD"}
                first == CHOOSE k \in {ChainIndex(chain, p.concept) : p \in usd} :
                             \A p \in usd : k <= ChainIndex(chain, p.concept)
            IN  Cardinality({p.concept : p \in usd}) >= 2 =>
                    /\ PointForEnd(facts, chain, end) # None
                    /\ PointForEnd(facts, chain, end).tag = chain[first]


\* ------------------------------------------------------------------ C2, C3
AnchorConcepts == UNION {{ANCHOR_TAGS[k][j] : j \in 1..Len(ANCHOR_TAGS[k])} :
                            k \in 1..Len(ANCHOR_TAGS)}

FormCompatible(pt, forms) ==
    \/ ~Truthy(pt.fldForm)
    \/ pt.fldForm.t = "str" /\ Upper(pt.fldForm.s) \in forms

DaysBetween(from_iso, to_iso) ==
    ToOrdinal(IsoToDate(to_iso)) - ToOrdinal(IsoToDate(from_iso))

\* The entry at p passes the three candidate filters of the form class
PassesFilters(f, p, ev, max_age, forms) ==
    /\ p.concept \in AnchorConcepts
    /\ PtAt(f, p).fldEnd.t = "str"
    /\ Len(PtAt(f, p).fldEnd.s) >= 10
    /\ FormCompatible(PtAt(f, p), forms)
    /\ ~IsRaise(IsoToDate(PtAt(f, p).fldEnd.s))
    /\ DaysBetween(PtAt(f, p).fldEnd.s, ev) >= 0
    /\ DaysBetween(PtAt(f, p).fldEnd.s, ev) <= max_age

\* The period ends that survive the filters
CandidateEnds(f, ev, max_age, forms) ==
    {SubSeq(PtAt(f, p).fldEnd.s, 1, 10) :
        p \in {x \in Places(f) : PassesFilters(f, x, ev, max_age, forms)}}

\* The engine has run on the fetched store
Built == pc = "built"

Selected(forms) ==
    LatestReportEndWithinWindow(facts, event_iso, max_age_days, forms)

Returned(sel) == ~IsRaise(sel) /\ sel.end # None

\* C2: anchor selection. Whenever the selector returns an end, that end is a
\* surviving candidate, no surviving candidate has a greater coverage, and no
\* candidate of the same coverage is a later date.
C2_MaxCoverageThenLatest ==
    Built =>
        \A forms \in FormClasses :
            LET sel == Selected(forms)
                cands == CandidateEnds(facts, event_iso, max_age_days, forms)
                cov == [c \in cands |-> Coverage(facts, c)]
            IN  Returned(sel) =>
                    /\ sel.end.s \in cands
                    /\ \A c \in cands :
                          /\ cov[c] <= cov[sel.end.s]
                          /\ cov[c] = cov[sel.end.s] => DaysBetween(c, sel.end.s) >= 0

\* An earlier end of greater coverage is chosen over a later candidate
C2_Witness ==
    /\ Built
    /\ \E forms \in FormClasses :
          LET sel == Selected(forms)
          IN  /\ Returned(sel)
              /\ \E c \in CandidateEnds(facts, event_iso, max_age_days, forms) :
                    /\ DaysBetween(sel.end.s, c) > 0
                    /\ Coverage(facts, c) < Coverage(facts, sel.end.s)

\* Of two candidates of equal coverage the later one is chosen
C2_TieWitness ==
    /\ Built
    /\ \E forms \in FormClasses :
          LET sel == Selected(forms)
          IN  /\ Returned(sel)
              /\ \E c \in CandidateEnds(facts, event_iso, max_age_days, forms) :
                    /\ DaysBetween(c, sel.end.s) > 0
                    /\ Coverage(facts, c) = Coverage(facts, sel.end.s)

\* C3: staleness window. Every returned anchor lies on or before the event
\* date, its age_days is event date minus period end and is within
\* 0..max_age_days; and a compatible point of an anchor concept whose age is
\* within the window, the boundary included, makes the selector return an anchor.
C3_StalenessWindow ==
    Built =>
        \A forms \in FormClasses :
            LET sel == Selected(forms)
            IN  ~IsRaise(sel) =>
                    /\ sel.end # None =>
                          LET age == DaysBetween(sel.end.s, event_iso)
                          IN  /\ age >= 0
                              /\ age <= max_age_days
                              /\ sel.meta.age_days = Num(age)
                    /\ (\E p \in Places(facts) :
                            PassesFilters(facts, p, event_iso, max_age_days, forms))
                          => sel.end # None

\* An anchor whose age is exactly max_age_days is returned
C3_Witness ==
    /\ Built
    /\ \E forms \in FormClasses :
          LET sel == Selected(forms)
          IN  /\ Returned(sel)
              /\ DaysBetween(sel.end.s, event_iso) = max_age_days
              /\ sel.meta.age_days = Num(MaxReportAgeDays)

\* A point one day past the window yields no anchor
C3_RejectWitness ==
    /\ Built
    /\ \E forms \in FormClasses :
          LET sel == Selected(forms)
          IN  /\ ~IsRaise(sel) /\ sel.end = None
              /\ \E p \in Places(facts) :
                    /\ p.concept \in AnchorConcepts
                    /\ FormCompatible(PtAt(facts, p), forms)
                    /\ PtAt(facts, p).fldEnd.t = "str"
                    /\ ~IsRaise(IsoToDate(PtAt(facts, p).fldEnd.s))
                    /\ DaysBetween(PtAt(facts, p).fldEnd.s, event_iso)
                          = max_age_days + 1

\* ------------------------------------------------------------------ C4 .. C8
PrefixOf(forms) == IF forms = QUARTERLY_FORMS THEN "q_" ELSE "a_"

\* The fields of one form class in the snapshot
ClassFields ==
    {"report_end", "age_days", "report_form", "report_fp", "report_filed", "coverage",
     "cash_val", "cash_tag", "liab_val", "liab_tag", "assets_val", "assets_tag",
     "assets_cur_val", "assets_cur_tag", "liab_cur_val", "liab_cur_tag",
     "ar_val", "ar_tag", "inv_val", "inv_tag", "debt_val", "debt_tag",
     "oi_val", "oi_tag", "int_val", "int_tag", "ocf_val", "ocf_tag",
     "cash_to_liab", "current_ratio", "quick_ratio", "debt_to_assets",
     "interest_coverage", "ocf_to_debt"}

SnapshotReturned == pc = "built" /\ snap.t = "return"

\* C4: the engine never raises for data-quality reasons: for every store,
\* malformed points included, the anchor selector and build_rx_snapshot return.
C4_NeverRaises ==
    Built =>
        /\ snap.t = "return"
        /\ \A forms \in FormClasses : ~IsRaise(Selected(forms))

\* The store without the entry at place p
RemoveAt(f, p) ==
    [f EXCEPT !.us_gaap[p.concept][p.b].series =
        [i \in 1..(Len(@) - 1) |-> IF i < p.i THEN @[i] ELSE @[i + 1]]]

\* A value that is no number, or a period end that is no date
Malformed(pt) ==
    \/ pt.fldVal.t # "num"
    \/ AsIso10(pt.fldEnd) = None
    \/ IsRaise(IsoToDate(AsIso10(pt.fldEnd).s))

\* C5: a malformed entry has no effect: whenever build_rx_snapshot returns a
\* snapshot, it is the snapshot of the store without that entry (the same
\* anchors, metadata, coverage and values); so a malformed entry never creates
\* a candidate end.
C5_MalformedHasNoEffect ==
    SnapshotReturned =>
        \A p \in Places(facts) :
            Malformed(PtAt(facts, p)) =>
                snap = BuildRxSnapshot(RemoveAt(facts, p), event_iso, max_age_days)

\* C6: when the selector finds no period end for a form class, build_rx_snapshot
\* still returns a snapshot whose error is empty and whose fields of that class
\* are null.
C6_NoAnchorIsNormal ==
    Built =>
        \A forms \in FormClasses :
            LET sel == Selected(forms)
            IN  (~IsRaise(sel) /\ sel.end = None) =>
                    /\ snap.t = "return"
                    /\ snap.value[<<"", "error">>] = Str(<<>>)
                    /\ \A k \in ClassFields : snap.value[<<PrefixOf(forms), k>>] = None

\* C7: whenever the store was fetched, the record has has_companyfacts = 1 and
\* an empty error, whatever the store holds.
C7_ErrorOnlyOnFetchFailure ==
    (pc = "done" /\ facts # None) =>
        /\ record[<<"", "has_companyfacts">>] = Num(1)
        /\ record[<<"", "error">>] = Str(<<>>)

\* C8: the returned snapshot always has the same keys: has_companyfacts, error
\* and every field under both prefixes; the fields of a form class without an
\* anchor are all null; no key of one class is a key of the other.
C8_UniformSchema ==
    SnapshotReturned =>
        /\ DOMAIN snap.value =
              {<<"", "has_companyfacts">>, <<"", "error">>}
              \cup ({"q_", "a_"} \X ClassFields)
        /\ \A forms \in FormClasses :
              Selected(forms).end = None =>
                  \A k \in ClassFields : snap.value[<<PrefixOf(forms), k>>] = None
        /\ {k[2] : k \in {x \in DOMAIN snap.value : x[1] = "q_"}}
              = {k[2] : k \in {x \in DOMAIN snap.value : x[1] = "a_"}}

\* A snapshot with an annual anchor and no quarterly anchor
C8_Witness ==
    /\ SnapshotReturned
    /\ Selected(QUARTERLY_FORMS).end = None
    /\ snap.value[<<"q_", "report_end">>] = None
    /\ snap.value[<<"a_", "report_end">>] # None

\* ------------------------------------------------------------------ C9, C10
ValuesAt(f, chain, end) ==
    {PtAt(f, p).fldVal.n :
        p \in {x \in Places(f) : InChain(chain, x.concept) /\ NumericAt(f, x, end)}}

\* C9: total liabilities at an end is the value of the direct concept when it
\* resolves; else the sum of current and noncurrent liabilities under the label
\* of a sum when both resolve; else absent.
C9_TotalLiabilities ==
    Built =>
        \A end \in StoreEnds(facts) :
            LET r == TotalLiabilitiesAtEnd(facts, end)
                direct == ValuesAt(facts, TAG_LIAB_TOTAL, end)
                cur == ValuesAt(facts, TAG_LIAB_CUR, end)
                non == ValuesAt(facts, TAG_LIAB_NONCUR, end)
            IN  /\ direct # {} =>
                      /\ r.tag = Name("Liabilities")
                      /\ \E v \in direct : r.val = Num(v)
                /\ (direct = {} /\ cur # {} /\ non # {}) =>
                      /\ r.tag = Name("LiabilitiesCurrent+LiabilitiesNoncurrent")
                      /\ \E v \in cur : \E w \in non : r.val = Num(v + w)
                /\ (direct = {} /\ (cur = {} \/ non = {})) =>
                      /\ r.val = None
                      /\ r.tag = None

\* Only current liabilities at an end: total liabilities is absent there
C9_Witness ==
    /\ Built
    /\ \E end \in StoreEnds(facts) :
          /\ ValuesAt(facts, TAG_LIAB_TOTAL, end) = {}
          /\ ValuesAt(facts, TAG_LIAB_CUR, end) # {}
          /\ ValuesAt(facts, TAG_LIAB_NONCUR, end) = {}
          /\ TotalLiabilitiesAtEnd(facts, end).val = None

\* Current and noncurrent liabilities without the direct concept: their sum
C9_SumWitness ==
    /\ Built
    /\ \E end \in StoreEnds(facts) :
          /\ ValuesAt(facts, TAG_LIAB_TOTAL, end) = {}
          /\ TotalLiabilitiesAtEnd(facts, end).val = Num(300 + 250)

\* C10: total debt at an end is absent iff neither current nor long-term debt
\* resolves; the value of the one that resolves when exactly one does; their
\* sum when both do.
C10_TotalDebt ==
    Built =>
        \A end \in StoreEnds(facts) :
            LET r == TotalDebtAtEnd(facts, end)
                cur == ValuesAt(facts, TAG_DEBT_CUR, end)
                lt == ValuesAt(facts, TAG_DEBT_LT, end)
            IN  /\ r.val = None <=> (cur = {} /\ lt = {})
                /\ (cur # {} /\ lt = {}) => \E v \in cur : r.val = Num(v)
                /\ (cur = {} /\ lt # {}) => \E w \in lt : r.val = Num(w)
                /\ (cur # {} /\ lt # {}) =>
                      \E v \in cur : \E w \in lt : r.val = Num(v + w)

\* Only current debt at an end: total debt is that value
C10_Witness ==
    /\ Built
    /\ \E end \in StoreEnds(facts) :
          /\ ValuesAt(facts, TAG_DEBT_CUR, end) = {50}
          /\ ValuesAt(facts, TAG_DEBT_LT, end) = {}
          /\ TotalDebtAtEnd(facts, end).val = Num(50)

\* Both debt components at an end: their sum
C10_SumWitness ==
    /\ Built
    /\ \E end \in StoreEnds(facts) :
          /\ ValuesAt(facts, TAG_DEBT_CUR, end) # {}
          /\ ValuesAt(facts, TAG_DEBT_LT, end) # {}
          /\ TotalDebtAtEnd(facts, end).val = Num(50 + 400)

\* ------------------------------------------------------------------ C11
\* The returned value r is the quotient num / den
IsQuotient(r, num, den) ==
    /\ r # None
    /\ r.t = "quot"
    /\ r.q # 0
    /\ r.p * den = r.q * num

\* C11: safe_div(a, b) never raises; it is absent iff a is absent, b is absent
\* or b is 0; otherwise it is a / b.
C11_SafeDiv ==
    pc = "returned" =>
        /\ ~IsRaise(div.ret)
        /\ div.ret = None <=> (div.a = None \/ div.b = None \/ div.b = Num(0))
        /\ div.ret # None => IsQuotient(div.ret, div.a.n, div.b.n)

\* A present numerator over zero: absent
C11_Witness ==
    /\ pc = "returned"
    /\ div.a = Num(MaxOperand)
    /\ div.b = Num(0)
    /\ div.ret = None

\* 3 / (-6) is -1 / 2
C11_QuotientWitness ==
    /\ pc = "returned"
    /\ div.a = Num(3)
    /\ div.b = Num(-6)
    /\ div.ret = [t |-> "quot", p |-> -1, q |-> 2]

\* ------------------------------------------------------------------ C12, C13
Prefixes == {"q_", "a_"}

\* Field k of the sub-record of a form class in the returned snapshot
Field(prefix, k) == snap.value[<<prefix, k>>]

\* The sub-record has an anchor
HasAnchor(prefix) == Field(prefix, "report_end") # None

\* C12: with current liabilities present and not zero, the quick ratio is
\* (cash + receivables) / CL when both are present; else (current assets -
\* inventory) / CL when both of those are present; else absent.
C12_QuickRatioChoice ==
    SnapshotReturned =>
        \A prefix \in Prefixes :
            LET cash == Field(prefix, "cash_val")
                ar == Field(prefix, "ar_val")
                ac == Field(prefix, "assets_cur_val")
                inv == Field(prefix, "inv_val")
                cl == Field(prefix, "liab_cur_val")
                qr == Field(prefix, "quick_ratio")
            IN  (HasAnchor(prefix) /\ cl # None /\ cl # Num(0)) =>
                    /\ (cash # None /\ ar # None) =>
                          IsQuotient(qr, cash.n + ar.n, cl.n)
                    /\ ((cash = None \/ ar = None) /\ ac # None /\ inv # None) =>
                          IsQuotient(qr, ac.n - inv.n, cl.n)
                    /\ ((cash = None \/ ar = None) /\ (ac = None \/ inv = None)) =>
                          qr = None

\* cash 100, no receivables, current assets 500, inventory 200, current
\* liabilities 300: the quick ratio is (500 - 200) / 300 = 1
C12_Witness ==
    /\ SnapshotReturned
    /\ Field("a_", "cash_val") = Num(100)
    /\ Field("a_", "ar_val") = None
    /\ Field("a_", "assets_cur_val") = Num(500)
    /\ Field("a_", "inv_val") = Num(200)
    /\ Field("a_", "liab_cur_val") = Num(300)
    /\ Field("a_", "quick_ratio") = [t |-> "quot", p |-> 1, q |-> 1]

\* cash 100 and receivables 50 over current liabilities 300: 150 / 300 = 1 / 2
C12_PrimaryWitness ==
    /\ SnapshotReturned
    /\ Field("a_", "cash_val") = Num(100)
    /\ Field("a_", "ar_val") = Num(50)
    /\ Field("a_", "liab_cur_val") = Num(300)
    /\ Field("a_", "quick_ratio") = [t |-> "quot", p |-> 1, q |-> 2]

\* C13: the engine returns on these stores, and where current liabilities is
\* absent or zero at the anchor, the quick ratio and the current ratio of that
\* sub-record are absent, whatever numerators are there.
C13_NoCurrentLiabilities ==
    Built =>
        /\ snap.t = "return"
        /\ \A prefix \in Prefixes :
              LET cl == Field(prefix, "liab_cur_val")
              IN  (HasAnchor(prefix) /\ (cl = None \/ cl = Num(0))) =>
                      /\ Field(prefix, "quick_ratio") = None
                      /\ Field(prefix, "current_ratio") = None

\* Current liabilities zero with every numerator present
C13_Witness ==
    /\ SnapshotReturned
    /\ Field("a_", "liab_cur_val") = Num(0)
    /\ Field("a_", "cash_val") = Num(100)
    /\ Field("a_", "ar_val") = Num(50)
    /\ Field("a_", "assets_cur_val") = Num(500)
    /\ Field("a_", "inv_val") = Num(200)
    /\ Field("a_", "quick_ratio") = None
    /\ Field("a_", "current_ratio") = None

\* Current liabilities absent at an anchor that has the numerators
C13_AbsentWitness ==
    /\ SnapshotReturned
    /\ HasAnchor("a_")
    /\ Field("a_", "liab_cur_val") = None
    /\ Field("a_", "assets_cur_val") = Num(500)
    /\ Field("a_", "inv_val") = Num(200)
    /\ Field("a_", "quick_ratio") = None

\* ------------------------------------------------------------------ C14
\* The entries of the chain that are numeric points at end in the given unit
Matching(f, chain, end, unit) ==
    {p \in Places(f) : /\ InChain(chain, p.concept)
                       /\ NumericAt(f, p, end)
                       /\ UnitAt(f, p) = unit}

\* C14: unit preference dominates chain position. For every chain and period
\* end: if some concept of the chain has a numeric point at that end in USD,
\* point_for_end returns a point in USD; a point in another unit is returned
\* only when no such USD point exists.
C14_UnitPreference ==
    Built =>
        \A chain \in TagChains : \A end \in StoreEnds(facts) :
            LET r == PointForEnd(facts, chain, end)
                usd == Matching(facts, chain, end, "USD")
            IN  /\ usd # {} => (r # None /\ r.unit = "USD")
                /\ (r # None /\ r.unit # "USD") => usd = {}

\* The first concept of the cash chain has a point in EUR only, the second one
\* in USD: the USD point of the second concept is returned
C14_Witness ==
    /\ Built
    /\ Matching(facts, TAG_CASH, D_2020_12_31, "USD") # {}
    /\ \A p \in Matching(facts, TAG_CASH, D_2020_12_31, "USD") :
          p.concept = TAG_CASH[2]
    /\ \E p \in Matching(facts, TAG_CASH, D_2020_12_31, "EUR") :
          p.concept = TAG_CASH[1]
    /\ PointForEnd(facts, TAG_CASH, D_2020_12_31).unit = "USD"
    /\ PointForEnd(facts, TAG_CASH, D_2020_12_31).tag = TAG_CASH[2]

\* Only a EUR point matches: it is returned
C14_OtherUnitWitness ==
    /\ Built
    /\ Matching(facts, TAG_CASH, D_2020_12_31, "USD") = {}
    /\ PointForEnd(facts, TAG_CASH, D_2020_12_31) # None
    /\ PointForEnd(facts, TAG_CASH, D_2020_12_31).unit = "EUR"

\* ------------------------------------------------------------------ C15
\* The target ends asked for: the ends of the store and the event dates
TargetEnds(f) == StoreEnds(f) \cup EventPool

\* The entries of the chain that are numeric points at end, in any unit
MatchingAny(f, chain, end) ==
    {p \in Places(f) : InChain(chain, p.concept) /\ NumericAt(f, p, end)}

\* C15: exact period-end matching. point_for_end returns a point only if it is
\* an entry of the store under a concept of the chain whose period end is the
\* target and whose value is numeric (the point carries that entry's concept,
\* unit, value and end); it returns None iff there is no such entry, and it
\* never raises.
C15_ExactEndMatch ==
    Built =>
        \A chain \in TagChains : \A end \in TargetEnds(facts) :
            LET r == PointForEnd(facts, chain, end)
                hits == MatchingAny(facts, chain, end)
            IN  /\ ~IsRaise(r)
                /\ r = None <=> hits = {}
                /\ r # None =>
                      \E p \in hits :
                          /\ r.tag = p.concept
                          /\ r.unit = UnitAt(facts, p)
                          /\ r.val = PtAt(facts, p).fldVal.n
                          /\ r.end = end

\* The cash chain has a numeric point at 2020-09-30 and no point at
\* 2020-12-31: the first end resolves to that entry, the second is absent
C15_Witness ==
    /\ Built
    /\ MatchingAny(facts, TAG_CASH, D_2020_09_30) # {}
    /\ PointForEnd(facts, TAG_CASH, D_2020_09_30) # None
    /\ PointForEnd(facts, TAG_CASH, D_2020_09_30).val = 90
    /\ PointForEnd(facts, TAG_CASH, D_2020_12_31) = None

\* A chain whose concepts are all missing from a non-empty store: absent
C15_MissingConceptWitness ==
    /\ Built
    /\ DOMAIN facts.us_gaap # {}
    /\ \A k \in 1..Len(TAG_LIAB_TOTAL) : TAG_LIAB_TOTAL[k] \notin DOMAIN facts.us_gaap
    /\ \A end \in TargetEnds(facts) : PointForEnd(facts, TAG_LIAB_TOTAL, end) = None

\* The only Liabilities entry at the end has a value that is no number: absent
C15_NonNumericWitness ==
    /\ Built
    /\ \E p \in Places(facts) :
          /\ p.concept = "Liabilities"
          /\ PtAt(facts, p).fldEnd = Str(D_2020_12_31)
          /\ PtAt(facts, p).fldVal = Str(S_NA)
    /\ PointForEnd(facts, TAG_LIAB_TOTAL, D_2020_12_31) = None

\* ------------------------------------------------------------------ C16
\* The candidate scan of one form class on the fetched store
Scan(forms) ==
    CandidateLoop(AnchorPoints(facts), IsoToDate(event_iso), max_age_days, forms, <<>>)

\* The candidate ends that a completed scan has collected
ScanEnds(scan) == {scan.ends_meta[i].end : i \in 1..Len(scan.ends_meta)}

\* The entry at p is a point of an anchor concept whose period end is a date
\* within the window
InWindow(f, p, ev, max_age) ==
    /\ p.concept \in AnchorConcepts
    /\ PtAt(f, p).fldEnd.t = "str"
    /\ Len(PtAt(f, p).fldEnd.s) >= 10
    /\ ~IsRaise(IsoToDate(PtAt(f, p).fldEnd.s))
    /\ DaysBetween(PtAt(f, p).fldEnd.s, ev) >= 0
    /\ DaysBetween(PtAt(f, p).fldEnd.s, ev) <= max_age

End10(f, p) == SubSeq(PtAt(f, p).fldEnd.s, 1, 10)

\* C16: form filter. In every scan that completes, the end of a point within
\* the window is a candidate iff some point within the window with that end has
\* no form or a form whose upper-cased value is in allowed_forms; so the end of
\* a point without a form is a candidate of both runs, and an end that only
\* 10-K points have is no candidate of the quarterly run.
C16_FormFilter ==
    Built =>
        \A forms \in FormClasses :
            LET scan == Scan(forms)
                inwin == {p \in Places(facts) :
                             InWindow(facts, p, event_iso, max_age_days)}
            IN  scan.t = "ok" =>
                    /\ \A p \in inwin :
                          End10(facts, p) \in ScanEnds(scan)
                              <=> \E x \in inwin :
                                     /\ End10(facts, x) = End10(facts, p)
                                     /\ FormCompatible(PtAt(facts, x), forms)
                    /\ \A p \in inwin :
                          PtAt(facts, p).fldForm = None
                              => End10(facts, p) \in ScanEnds(scan)

\* A point without a form within the window: its end is a candidate of both
\* the quarterly and the annual scan
C16_Witness ==
    /\ Built
    /\ Scan(QUARTERLY_FORMS).t = "ok"
    /\ Scan(ANNUAL_FORMS).t = "ok"
    /\ \E p \in Places(facts) :
          /\ InWindow(facts, p, event_iso, max_age_days)
          /\ PtAt(facts, p).fldForm = None
          /\ \A x \in Places(facts) : x = p
          /\ End10(facts, p) \in ScanEnds(Scan(QUARTERLY_FORMS))
          /\ End10(facts, p) \in ScanEnds(Scan(ANNUAL_FORMS))

\* Only 10-K points within the window: candidates of the annual scan, none of
\* the quarterly scan
C16_AnnualOnlyWitness ==
    /\ Built
    /\ Scan(QUARTERLY_FORMS).t = "ok"
    /\ Scan(ANNUAL_FORMS).t = "ok"
    /\ \E p \in Places(facts) :
          /\ InWindow(facts, p, event_iso, max_age_days)
          /\ PtAt(facts, p).fldForm = Str(S_10K)
    /\ ScanEnds(Scan(QUARTERLY_FORMS)) = {}
    /\ ScanEnds(Scan(ANNUAL_FORMS)) # {}

\* A point filed on a "10-k" in lower case is a candidate of the annual scan
C16_LowerCaseWitness ==
    /\ Built
    /\ Scan(ANNUAL_FORMS).t = "ok"
    /\ \E p \in Places(facts) :
          /\ InWindow(facts, p, event_iso, max_age_days)
          /\ PtAt(facts, p).fldForm = Str(S_10k_lower)
          /\ \A x \in Places(facts) : x = p
          /\ End10(facts, p) \in ScanEnds(Scan(ANNUAL_FORMS))

\* ------------------------------------------------------------------ C17
\* The entry at p is a fact point (its value is a number) of an anchor concept
\* that passes the form, event-date and age filters of the form class
PointPasses(f, p, ev, max_age, forms) ==
    /\ PtAt(f, p).fldVal.t = "num"
    /\ PassesFilters(f, p, ev, max_age, forms)

\* C17: whenever the selector returns, it returns no end iff no point of an
\* anchor concept passes the three filters, and a returned end is the period
\* end of one of the points that pass.
C17_AbsentIffNoPoint ==
    Built =>
        \A forms \in FormClasses :
            LET sel == Selected(forms)
                pass == {p \in Places(facts) :
                            PointPasses(facts, p, event_iso, max_age_days, forms)}
            IN  ~IsRaise(sel) =>
                    /\ sel.end = None <=> pass = {}
                    /\ sel.end # None =>
                          \E p \in pass : sel.end = Str(End10(facts, p))

\* A point passes and the selector returns its end
C17_Witness ==
    /\ Built
    /\ \E forms \in FormClasses :
          /\ Returned(Selected(forms))
          /\ \E p \in Places(facts) :
                /\ PointPasses(facts, p, event_iso, max_age_days, forms)
                /\ Selected(forms).end = Str(End10(facts, p))

\* ------------------------------------------------------------------ C18
\* The raw point pt survives the filters of the scan with the period end `end`
Survives(pt, end, ev, max_age, forms) ==
    /\ pt.fldEnd.t = "str"
    /\ Len(pt.fldEnd.s) >= 10
    /\ SubSeq(pt.fldEnd.s, 1, 10) = end
    /\ FormCompatible(pt, forms)
    /\ ~IsRaise(IsoToDate(pt.fldEnd.s))
    /\ DaysBetween(pt.fldEnd.s, ev) >= 0
    /\ DaysBetween(pt.fldEnd.s, ev) <= max_age

\* The points in scan order that survive with the period end `end`
Survivors(trip, end, forms) ==
    {i \in 1..Len(trip) : Survives(trip[i].pt, end, event_iso, max_age_days, forms)}

\* C18: anchor metadata is first-point-wins. The form, fiscal period and filed
\* date of a returned anchor are those of the first point in scan order (anchor
\* concepts in configured order, then the points of each concept) that survives
\* with the anchor's period end; no later survivor changes them.
C18_FirstPointWins ==
    Built =>
        \A forms \in FormClasses :
            LET sel == Selected(forms)
                trip == AnchorPoints(facts)
            IN  Returned(sel) =>
                    LET surv == Survivors(trip, sel.end.s, forms)
                        first == CHOOSE i \in surv : \A j \in surv : i <= j
                    IN  /\ surv # {}
                        /\ sel.meta.form = OrNone(trip[first].pt.fldForm)
                        /\ sel.meta.fp = OrNone(trip[first].pt.fldFp)
                        /\ sel.meta.filed = AsIso10(trip[first].pt.fldFiled)

\* Two survivors with the anchor's end and different metadata, the later one
\* in scan order stored first in the store: the anchor carries the metadata of
\* the first in scan order (the Assets point without a form, which precedes
\* the 10-Q point of LiabilitiesCurrent in the configured order)
C18_Witness ==
    /\ Built
    /\ Returned(Selected(QUARTERLY_FORMS))
    /\ Selected(QUARTERLY_FORMS).end = Str(D_2020_09_30)
    /\ DOMAIN facts.us_gaap = {"Assets", "LiabilitiesCurrent"}
    /\ Cardinality(Survivors(AnchorPoints(facts), D_2020_09_30, QUARTERLY_FORMS)) = 2
    /\ Selected(QUARTERLY_FORMS).meta.form = None
    /\ Selected(QUARTERLY_FORMS).meta.filed = None

\* The first survivor is a 10-Q point and a later survivor has no form: the
\* anchor keeps the 10-Q metadata
C18_KeepWitness ==
    /\ Built
    /\ Returned(Selected(QUARTERLY_FORMS))
    /\ \E i, j \in Survivors(AnchorPoints(facts), Selected(QUARTERLY_FORMS).end.s,
                             QUARTERLY_FORMS) :
          /\ i < j
          /\ AnchorPoints(facts)[i].pt.fldForm = Str(S_10Q)
          /\ AnchorPoints(facts)[j].pt.fldForm = None
    /\ Selected(QUARTERLY_FORMS).meta.form = Str(S_10Q)
    /\ Selected(QUARTERLY_FORMS).meta.fp = Str(S_Q3)
    /\ Selected(QUARTERLY_FORMS).meta.filed = Str(D_2020_11_05)

\* ------------------------------------------------------------------ C19
\* The nine base concepts that count on their own tag chain
OwnChains == {TAG_CASH, TAG_ASSETS, TAG_ASSETS_CUR, TAG_LIAB_CUR, TAG_AR, TAG_INV,
              TAG_OI, TAG_INT, TAG_OCF}

\* The number of base concepts resolvable at end, read off the store
Resolvable(f, end) ==
    BoolInt(\/ Resolves(f, TAG_LIAB_TOTAL, end)
            \/ Resolves(f, TAG_LIAB_CUR, end) /\ Resolves(f, TAG_LIAB_NONCUR, end))
    + BoolInt(Resolves(f, TAG_DEBT_CUR, end) \/ Resolves(f, TAG_DEBT_LT, end))
    + Cardinality({chain \in OwnChains : Resolves(f, chain, end)})

\* C19: coverage scoring. For every candidate end the coverage count is the
\* number of resolvable base concepts at that end: total liabilities once iff
\* the direct concept or both components resolve, total debt once iff either
\* component resolves, each of the nine other concepts once iff its own chain
\* resolves; the count lies in 0..11, and the coverage of a returned anchor is
\* the count of its end.
C19_CoverageScoring ==
    Built =>
        \A forms \in FormClasses :
            LET sel == Selected(forms)
            IN  ~IsRaise(sel) =>
                    /\ \A end \in CandidateEnds(facts, event_iso, max_age_days, forms) :
                          /\ Coverage(facts, end) = Resolvable(facts, end)
                          /\ Coverage(facts, end) \in 0..11
                    /\ Returned(sel) =>
                          sel.meta.coverage = Num(Resolvable(facts, sel.end.s))

\* Every base concept resolves at the anchor: the coverage is 11
C19_Witness ==
    /\ Built
    /\ Returned(Selected(ANNUAL_FORMS))
    /\ Selected(ANNUAL_FORMS).end = Str(D_2020_12_31)
    /\ Selected(ANNUAL_FORMS).meta.coverage = Num(11)

\* Total liabilities counted through both components, the direct concept
\* absent: the two components and cash give 3 (liabilities, current
\* liabilities, cash)
C19_ComponentsWitness ==
    /\ Built
    /\ DOMAIN facts.us_gaap = {TAG_CASH[1], TAG_LIAB_CUR[1], TAG_LIAB_NONCUR[1]}
    /\ Returned(Selected(ANNUAL_FORMS))
    /\ Selected(ANNUAL_FORMS).meta.coverage = Num(3)

\* One component alone does not count as total liabilities: noncurrent
\* liabilities and cash give 1
C19_OneComponentWitness ==
    /\ Built
    /\ DOMAIN facts.us_gaap = {TAG_CASH[1], TAG_LIAB_NONCUR[1]}
    /\ Returned(Selected(ANNUAL_FORMS))
    /\ Selected(ANNUAL_FORMS).meta.coverage = Num(1)

\* Total debt counted once although both components resolve: the two debt
\* concepts alone give 1
C19_DebtWitness ==
    /\ Built
    /\ DOMAIN facts.us_gaap = {TAG_DEBT_CUR[1], TAG_DEBT_LT[1]}
    /\ Returned(Selected(ANNUAL_FORMS))
    /\ Selected(ANNUAL_FORMS).meta.coverage = Num(1)

\* ------------------------------------------------------------------ C20
FormsOf(prefix) == IF prefix = "q_" THEN QUARTERLY_FORMS ELSE ANNUAL_FORMS

\* The sub-record of a form class as a function of the store, the event date,
\* max_age_days and the class's own form set: the metrics of the anchor that
\* the class's selector returns, under the class's prefix
SubRecord(f, ev, max_age, prefix) ==
    LET sel == LatestReportEndWithinWindow(f, ev, max_age, FormsOf(prefix))
    IN  Merge(IF Truthy(sel.end) THEN CalculateMetricsForReport(f, sel.end.s, sel.meta)
              ELSE <<>>,
              prefix)

\* C20: the quarterly and annual results are independent. Whenever the selector
\* of a form class returns on the store (an anchor or none), build_rx_snapshot
\* returns and the sub-record of that class is the one computed from the
\* store, the event date, max_age_days and that class's form set alone,
\* whatever the other class yields.
C20_Independence ==
    Built =>
        \A prefix \in Prefixes :
            ~IsRaise(Selected(FormsOf(prefix))) =>
                /\ snap.t = "return"
                /\ LET sub == SubRecord(facts, event_iso, max_age_days, prefix)
                   IN  \A key \in DOMAIN sub : snap.value[key] = sub[key]

\* The same on the runs where build_rx_snapshot returns
C20_IndependenceOnReturn ==
    SnapshotReturned =>
        \A prefix \in Prefixes :
            LET sub == SubRecord(facts, event_iso, max_age_days, prefix)
            IN  \A key \in DOMAIN sub : snap.value[key] = sub[key]

\* The four combinations of a quarterly and an annual anchor
C20_BothWitness == SnapshotReturned /\ HasAnchor("q_") /\ HasAnchor("a_")

C20_OnlyQuarterlyWitness == SnapshotReturned /\ HasAnchor("q_") /\ ~HasAnchor("a_")

C20_OnlyAnnualWitness == SnapshotReturned /\ ~HasAnchor("q_") /\ HasAnchor("a_")

C20_NeitherWitness ==
    SnapshotReturned /\ ~HasAnchor("q_") /\ ~HasAnchor("a_") /\ DOMAIN facts.us_gaap # {}

\* ------------------------------------------------------------------ C21
\* C21: interest expense is a magnitude. In every sub-record the interest
\* expense, when present, is >= 0 and is the absolute value of a numeric
\* entry of the interest chain at the anchor; the interest coverage is
\* operating income divided by that magnitude, and is absent when the
\* magnitude is 0 or one of the two is absent.
C21_InterestMagnitude ==
    SnapshotReturned =>
        \A prefix \in Prefixes :
            LET iv == Field(prefix, "int_val")
                oi == Field(prefix, "oi_val")
                ic == Field(prefix, "interest_coverage")
            IN  /\ iv # None =>
                      /\ iv.t = "num" /\ iv.n >= 0
                      /\ HasAnchor(prefix)
                      /\ \E p \in MatchingAny(facts, TAG_INT,
                                              Field(prefix, "report_end").s) :
                            iv.n = Abs(PtAt(facts, p).fldVal.n)
                /\ (iv = None \/ oi = None \/ iv = Num(0)) => ic = None
                /\ (iv # None /\ oi # None /\ iv # Num(0)) =>
                      IsQuotient(ic, oi.n, iv.n)

\* Interest expense reported as -40 with operating income 200: the value is 40
\* and the coverage 200 / 40 = 5
C21_Witness ==
    /\ SnapshotReturned
    /\ \E p \in Places(facts) : p.concept = "InterestExpense"
                                /\ PtAt(facts, p).fldVal = Num(-40)
    /\ Field("a_", "int_val") = Num(40)
    /\ Field("a_", "oi_val") = Num(200)
    /\ Field("a_", "interest_coverage") = [t |-> "quot", p |-> 5, q |-> 1]

\* Interest expense 0: the coverage is absent
C21_ZeroWitness ==
    /\ SnapshotReturned
    /\ Field("a_", "int_val") = Num(0)
    /\ Field("a_", "oi_val") = Num(200)
    /\ Field("a_", "interest_coverage") = None

\* A negative operating income over a negative interest expense: the ratio is
\* negative, -120 / 40 = -3
C21_NegativeIncomeWitness ==
    /\ SnapshotReturned
    /\ \E p \in Places(facts) : p.concept = "InterestExpense"
                                /\ PtAt(facts, p).fldVal = Num(-40)
    /\ Field("a_", "oi_val") = Num(-120)
    /\ Field("a_", "interest_coverage") = [t |-> "quot", p |-> -3, q |-> 1]

\* ------------------------------------------------------------------ C22
\* Total liabilities resolve at end: the direct concept or both components
LiabResolves(f, end) ==
    \/ Resolves(f, TAG_LIAB_TOTAL, end)
    \/ Resolves(f, TAG_LIAB_CUR, end) /\ Resolves(f, TAG_LIAB_NONCUR, end)

\* Total debt resolves at end: one of the two components
DebtResolves(f, end) ==
    Resolves(f, TAG_DEBT_CUR, end) \/ Resolves(f, TAG_DEBT_LT, end)

NonZero(v) == v # None /\ v # Num(0)

\* Only Assets 1000 and Liabilities 600 for 2020-12-31 on a 10-K
ScenarioStore ==
    MakeStore(<<Entry("Liabilities", "USD", TenKPt(600)),
                Entry("Assets", "USD", TenKPt(1000))>>)

\* C22: absent concepts propagate as nulls and never as failures. On stores of
\* well-formed points the engine returns, and in every sub-record each of the
\* six ratios is non-null only if every component it is computed from
\* resolves at the anchor and its denominator is not zero. With only Assets
\* and Liabilities for 2020-12-31 on a 10-K and the event date 2021-02-01 the
\* annual anchor is 2020-12-31 with age_days 32, and debt_to_assets and
\* cash_to_liab are absent.
C22_AbsentPropagates ==
    Built =>
        /\ snap.t = "return"
        /\ \A prefix \in Prefixes :
              LET end == Field(prefix, "report_end")
                  R(chain) == end # None /\ Resolves(facts, chain, end.s)
                  L == end # None /\ LiabResolves(facts, end.s)
                  D == end # None /\ DebtResolves(facts, end.s)
              IN  /\ Field(prefix, "cash_to_liab") # None =>
                        R(TAG_CASH) /\ L /\ NonZero(Field(prefix, "liab_val"))
                  /\ Field(prefix, "current_ratio") # None =>
                        /\ R(TAG_ASSETS_CUR) /\ R(TAG_LIAB_CUR)
                        /\ NonZero(Field(prefix, "liab_cur_val"))
                  /\ Field(prefix, "quick_ratio") # None =>
                        /\ R(TAG_LIAB_CUR) /\ NonZero(Field(prefix, "liab_cur_val"))
                        /\ \/ R(TAG_CASH) /\ R(TAG_AR)
                           \/ R(TAG_ASSETS_CUR) /\ R(TAG_INV)
                  /\ Field(prefix, "debt_to_assets") # None =>
                        D /\ R(TAG_ASSETS) /\ NonZero(Field(prefix, "assets_val"))
                  /\ Field(prefix, "interest_coverage") # None =>
                        R(TAG_OI) /\ R(TAG_INT) /\ NonZero(Field(prefix, "int_val"))
                  /\ Field(prefix, "ocf_to_debt") # None =>
                        R(TAG_OCF) /\ D /\ NonZero(Field(prefix, "debt_val"))
        /\ (facts = ScenarioStore /\ event_iso = D_2021_02_01) =>
              /\ Field("a_", "report_end") = Str(D_2020_12_31)
              /\ Field("a_", "age_days") = Num(32)
              /\ Field("a_", "debt_to_assets") = None
              /\ Field("a_", "cash_to_liab") = None

\* The scenario has run: anchor 2020-12-31 at age 32, assets 1000 and
\* liabilities 600 resolved, the two ratios absent
C22_Witness ==
    /\ SnapshotReturned
    /\ facts = ScenarioStore
    /\ event_iso = D_2021_02_01
    /\ Field("a_", "age_days") = Num(32)
    /\ Field("a_", "assets_val") = Num(1000)
    /\ Field("a_", "liab_val") = Num(600)
    /\ Field("a_", "debt_to_assets") = None
    /\ Field("a_", "cash_to_liab") = None

\* All six ratios absent beside an anchor: only operating income is reported
C22_AllAbsentWitness ==
    /\ SnapshotReturned
    /\ HasAnchor("a_")
    /\ DOMAIN facts.us_gaap = {"OperatingIncomeLoss"}
    /\ \A k \in {"cash_to_liab", "current_ratio", "quick_ratio", "debt_to_assets",
                 "interest_coverage", "ocf_to_debt"} : Field("a_", k) = None

\* Every ratio is non-null in some sub-record
C22_CashToLiabWitness == SnapshotReturned /\ Field("a_", "cash_to_liab") # None

C22_CurrentRatioWitness == SnapshotReturned /\ Field("a_", "current_ratio") # None

C22_QuickRatioWitness == SnapshotReturned /\ Field("a_", "quick_ratio") # None

C22_DebtToAssetsWitness == SnapshotReturned /\ Field("a_", "debt_to_assets") # None

C22_InterestCoverageWitness ==
    SnapshotReturned /\ Field("a_", "interest_coverage") # None

C22_OcfToDebtWitness == SnapshotReturned /\ Field("a_", "ocf_to_debt") # None

\* A zero denominator beside a resolved numerator: debt 50 over assets 0
C22_ZeroDenominatorWitness ==
    /\ SnapshotReturned
    /\ Field("a_", "debt_val") = Num(50)
    /\ Field("a_", "assets_val") = Num(0)
    /\ Field("a_", "debt_to_assets") = None

\* ------------------------------------------------------------------ C24
\* The nine primitive values: field name and tag chain
Primitives ==
    {<<"cash", TAG_CASH>>, <<"assets", TAG_ASSETS>>, <<"assets_cur", TAG_ASSETS_CUR>>,
     <<"liab_cur", TAG_LIAB_CUR>>, <<"ar", TAG_AR>>, <<"inv", TAG_INV>>,
     <<"oi", TAG_OI>>, <<"int", TAG_INT>>, <<"ocf", TAG_OCF>>}

ValKey(name) ==
    CASE name = "cash" -> "cash_val" [] name = "assets" -> "assets_val"
      [] name = "assets_cur" -> "assets_cur_val" [] name = "liab_cur" -> "liab_cur_val"
      [] name = "ar" -> "ar_val" [] name = "inv" -> "inv_val" [] name = "oi" -> "oi_val"
      [] name = "int" -> "int_val" [] name = "ocf" -> "ocf_val"

TagKey(name) ==
    CASE name = "cash" -> "cash_tag" [] name = "assets" -> "assets_tag"
      [] name = "assets_cur" -> "assets_cur_tag" [] name = "liab_cur" -> "liab_cur_tag"
      [] name = "ar" -> "ar_tag" [] name = "inv" -> "inv_tag" [] name = "oi" -> "oi_tag"
      [] name = "int" -> "int_tag" [] name = "ocf" -> "ocf_tag"

\* The value v reported under `name` is the value of the raw entry at place p
\* (the magnitude for the interest expense)
ReadFrom(f, p, name, v) ==
    /\ PtAt(f, p).fldVal.t = "num"
    /\ v = Num(IF name = "int" THEN Abs(PtAt(f, p).fldVal.n) ELSE PtAt(f, p).fldVal.n)

\* C24: each primitive value is reported with the concept actually used. In
\* every sub-record, for each of the nine primitives, the tag field is null
\* iff the value field is null, and a non-null tag is a concept of the
\* primitive's tag chain under which the store has a numeric entry at the
\* anchor with the reported value.
C24_TagOfValue ==
    SnapshotReturned =>
        \A prefix \in Prefixes : \A pr \in Primitives :
            LET val == Field(prefix, ValKey(pr[1]))
                tag == Field(prefix, TagKey(pr[1]))
            IN  /\ tag = None <=> val = None
                /\ tag # None =>
                      /\ HasAnchor(prefix)
                      /\ InChain(pr[2], tag.name)
                      /\ \E p \in Places(facts) :
                            /\ p.concept = tag.name
                            /\ NumericAt(facts, p, Field(prefix, "report_end").s)
                            /\ ReadFrom(facts, p, pr[1], val)

\* Both receivables concepts have a point: the tag names the one whose value
\* is reported
C24_Witness ==
    /\ SnapshotReturned
    /\ DOMAIN facts.us_gaap = {TAG_AR[1], TAG_AR[2]}
    /\ Field("a_", "ar_val") # None
    /\ Field("a_", "ar_tag") \in {Name(TAG_AR[1]), Name(TAG_AR[2])}
    /\ Field("a_", "ar_val") =
          IF Field("a_", "ar_tag") = Name(TAG_AR[1]) THEN Num(50) ELSE Num(55)

\* Only the second concept of the operating cash flow chain is reported
C24_SecondConceptWitness ==
    /\ SnapshotReturned
    /\ Field("a_", "ocf_val") = Num(75)
    /\ Field("a_", "ocf_tag") = Name(TAG_OCF[2])

\* An anchor without the primitive: value and tag are both null
C24_NullWitness ==
    /\ SnapshotReturned
    /\ HasAnchor("a_")
    /\ Field("a_", "cash_val") = None
    /\ Field("a_", "cash_tag") = None
    /\ Field("a_", "assets_tag") = Name("Assets")

\* The interest expense -40 is reported as 40 under its concept
C24_InterestWitness ==
    /\ SnapshotReturned
    /\ Field("a_", "int_val") = Num(40)
    /\ Field("a_", "int_tag") = Name("InterestExpense")

\* ------------------------------------------------------------------ C25
\* The form class of a prefix admits the entry at p: no form, or a form of
\* the class
Admits(f, p, prefix) == FormCompatible(PtAt(f, p), FormsOf(prefix))

\* The entries of the chain at end that the form class admits
Admitted(f, chain, end, prefix) ==
    {p \in MatchingAny(f, chain, end) : Admits(f, p, prefix)}

\* The number of base concepts resolvable at end from admitted entries alone
AdmittedCoverage(f, end, prefix) ==
    LET R(chain) == Admitted(f, chain, end, prefix) # {}
    IN  BoolInt(R(TAG_LIAB_TOTAL) \/ (R(TAG_LIAB_CUR) /\ R(TAG_LIAB_NONCUR)))
        + BoolInt(R(TAG_DEBT_CUR) \/ R(TAG_DEBT_LT))
        + Cardinality({chain \in OwnChains : R(chain)})

\* C25: form-class restriction of the whole run. In each sub-record with an
\* anchor, every primitive value is the value of an entry at the anchor whose
\* form is absent or in the form set of the class, and the coverage counts
\* only such entries: a point filed on a 10-K contributes neither a value nor
\* a coverage increment to the quarterly sub-record.
C25_FormClassRestriction ==
    SnapshotReturned =>
        \A prefix \in Prefixes :
            HasAnchor(prefix) =>
                LET end == Field(prefix, "report_end").s
                IN  /\ \A pr \in Primitives :
                          Field(prefix, ValKey(pr[1])) # None =>
                              \E p \in Admitted(facts, pr[2], end, prefix) :
                                  ReadFrom(facts, p, pr[1], Field(prefix, ValKey(pr[1])))
                    /\ Field(prefix, "coverage") =
                          Num(AdmittedCoverage(facts, end, prefix))

\* C25 as amended: the form-class restriction applies to the choice of the
\* anchor only. In each sub-record with an anchor, the anchor is the period
\* end of an entry of an anchor concept whose form is absent or in the form
\* set of the class; every primitive value is the value of a numeric entry of
\* its chain at the anchor, and the coverage counts the concepts with a
\* numeric entry at the anchor, whatever the forms of those entries.
C25_AnchorRestrictionOnly ==
    SnapshotReturned =>
        \A prefix \in Prefixes :
            HasAnchor(prefix) =>
                LET end == Field(prefix, "report_end").s
                IN  /\ \E p \in Places(facts) :
                          /\ PassesFilters(facts, p, event_iso, max_age_days,
                                           FormsOf(prefix))
                          /\ End10(facts, p) = end
                    /\ \A pr \in Primitives :
                          Field(prefix, ValKey(pr[1])) # None =>
                              \E p \in MatchingAny(facts, pr[2], end) :
                                  ReadFrom(facts, p, pr[1], Field(prefix, ValKey(pr[1])))
                    /\ Field(prefix, "coverage") = Num(Resolvable(facts, end))

\* The quarterly anchor 2020-12-31 comes from a 10-Q point; the quarterly cash
\* value 100 is read from the 10-K point of the same end, which the store
\* lists first
C25_Witness ==
    /\ SnapshotReturned
    /\ Field("q_", "report_end") = Str(D_2020_12_31)
    /\ Field("q_", "report_form") = Str(S_10Q)
    /\ Field("q_", "cash_val") = Num(100)
    /\ Admitted(facts, TAG_CASH, D_2020_12_31, "q_") # {}
    /\ \A p \in Admitted(facts, TAG_CASH, D_2020_12_31, "q_") :
          PtAt(facts, p).fldVal # Num(100)

\* A 10-K point of another concept adds to the quarterly coverage
C25_CoverageWitness ==
    /\ SnapshotReturned
    /\ Field("q_", "report_end") = Str(D_2020_12_31)
    /\ Field("q_", "coverage") = Num(2)
    /\ AdmittedCoverage(facts, D_2020_12_31, "q_") = 1

\* ------------------------------------------------------------------ C26
\* The derived fields: name, components
\* v is the value of a numeric entry of the chain at end
OneAtEnd(f, chain, end, v) ==
    \E p \in MatchingAny(f, chain, end) : v = Num(PtAt(f, p).fldVal.n)

\* v is the sum of a numeric entry of each of the two chains, both at end
TwoAtEnd(f, chain1, chain2, end, v) ==
    \E p1 \in MatchingAny(f, chain1, end) : \E p2 \in MatchingAny(f, chain2, end) :
        v = Num(PtAt(f, p1).fldVal.n + PtAt(f, p2).fldVal.n)

\* C26: one anchor for all metrics. In every sub-record with an anchor, every
\* primitive value is the value of a store entry whose period end is the
\* sub-record's report_end, total liabilities is the direct value or the sum
\* of a current and a noncurrent entry of that end, and total debt is the
\* value or the sum of debt entries of that end; a store that has no numeric
\* entry at the report_end gives no value at all.
C26_OneAnchor ==
    SnapshotReturned =>
        \A prefix \in Prefixes :
            HasAnchor(prefix) =>
                LET end == Field(prefix, "report_end").s
                    liab == Field(prefix, "liab_val")
                    debt == Field(prefix, "debt_val")
                IN  /\ \A pr \in Primitives :
                          Field(prefix, ValKey(pr[1])) # None =>
                              \E p \in MatchingAny(facts, pr[2], end) :
                                  ReadFrom(facts, p, pr[1], Field(prefix, ValKey(pr[1])))
                    /\ liab # None =>
                          \/ OneAtEnd(facts, TAG_LIAB_TOTAL, end, liab)
                          \/ TwoAtEnd(facts, TAG_LIAB_CUR, TAG_LIAB_NONCUR, end, liab)
                    /\ debt # None =>
                          \/ OneAtEnd(facts, TAG_DEBT_CUR, end, debt)
                          \/ OneAtEnd(facts, TAG_DEBT_LT, end, debt)
                          \/ TwoAtEnd(facts, TAG_DEBT_CUR, TAG_DEBT_LT, end, debt)

\* Cash is reported for both period ends; the quarterly sub-record anchored at
\* 2020-09-30 carries the cash of that end and the annual one the cash of
\* 2020-12-31
C26_Witness ==
    /\ SnapshotReturned
    /\ Field("q_", "report_end") = Str(D_2020_09_30)
    /\ Field("q_", "cash_val") = Num(90)
    /\ Field("a_", "report_end") = Str(D_2020_12_31)
    /\ Field("a_", "cash_val") = Num(100)

\* The anchor 2020-09-30 has current debt only, the long-term debt of the
\* store belongs to 2020-12-31: total debt is the 40 of the anchor alone
C26_DerivedWitness ==
    /\ SnapshotReturned
    /\ Field("q_", "report_end") = Str(D_2020_09_30)
    /\ Field("q_", "debt_val") = Num(40)
    /\ MatchingAny(facts, TAG_DEBT_LT, D_2020_12_31) # {}

\* A concept reported for another period end only stays absent
C26_OtherEndWitness ==
    /\ SnapshotReturned
    /\ Field("a_", "report_end") = Str(D_2020_12_31)
    /\ Field("a_", "assets_val") = None
    /\ \E p \in Places(facts) : p.concept = "Assets" /\ PtAt(facts, p).fldVal.t = "num"

\* ------------------------------------------------------------------ C27
\* The eleven value fields of a sub-record
ValueFields ==
    {"cash_val", "liab_val", "assets_val", "assets_cur_val", "liab_cur_val", "ar_val",
     "inv_val", "debt_val", "oi_val", "int_val", "ocf_val"}

\* C27: coverage is consistent with the emitted values. In every sub-record
\* with an anchor the coverage is an integer >= 0 equal to the number of
\* non-null value fields of that sub-record, and age_days is an integer >= 0.
C27_CoverageMatchesValues ==
    SnapshotReturned =>
        \A prefix \in Prefixes :
            HasAnchor(prefix) =>
                LET cov == Field(prefix, "coverage")
                    age == Field(prefix, "age_days")
                IN  /\ cov # None /\ cov.t = "num" /\ cov.n \in Nat
                    /\ cov.n = Cardinality({k \in ValueFields : Field(prefix, k) # None})
                    /\ age # None /\ age.t = "num" /\ age.n \in Nat

\* Seven of the thirteen concepts reported, among them both liability
\* components and no direct total: coverage 6 beside six non-null values
C27_Witness ==
    /\ SnapshotReturned
    /\ HasAnchor("a_")
    /\ Field("a_", "coverage") = Num(6)
    /\ Field("a_", "liab_tag") # Name("Liabilities")
    /\ Field("a_", "liab_val") # None
    /\ Field("a_", "age_days") = Num(68)

\* An anchor from long-term debt alone: coverage 1 beside the one value debt_val
C27_DebtOnlyWitness ==
    /\ SnapshotReturned
    /\ DOMAIN facts.us_gaap = {TAG_DEBT_LT[1]}
    /\ Field("a_", "coverage") = Num(1)
    /\ Field("a_", "debt_val") # None

\* All eleven values present
C27_FullWitness ==
    /\ SnapshotReturned
    /\ Field("a_", "coverage") = Num(11)
    /\ \A k \in ValueFields : Field("a_", k) # None

---------------------------------------------------------------------------
(* The run of main: what the claims speak about *)

\* The record one invocation on its own gives for case c on store f: the
\* engine called once, in a process where nothing has run before it
AloneRecordOf(c, f) ==
    CaseRecord(f, c.cik10, c.event_iso, RunEngine(f, {}, c.event_iso).built)

AloneRecord(i) == AloneRecordOf(CaseOf(i), CompanyFactsOf(CaseOf(i).cik10))

\* Task i has returned the record of a fetched store
Succeeded(i) == task[i].pc = "done" /\ task[i].resp = "200"

\* The engine, run on store f, has read objects of the store through the
\* names it binds to them and has changed objects of its own
ReadStoreWroteLocals(f) ==
    /\ \E tag \in EngineTags :
          /\ "store" \in RegionsOf("latest_report_end_within_window.pt", f, tag)
          /\ "store" \in RegionsOf("point_for_end.pt", f, tag)
    /\ \E tag \in EngineTags :
          RegionsOf("_iter_tag_points.node", f, tag) = {"local"}
    /\ \E w \in EngineWrites(f) : w.line = 147 /\ w.region = "local"
    /\ \E w \in EngineWrites(f) : w.line = 381 /\ w.region = "local"

\* C23: the engine is pure and keeps no state between invocations: in every
\* run of the tasks, whatever the order in which their requests end and
\* however their steps interleave, no call of a mutating method by
\* build_rx_snapshot or its callees has reached an object of module level,
\* the store a task has handed to build_rx_snapshot is the store it received,
\* unchanged, and the record the task returns is the record the invocation
\* gives on its own, with no invocation before it.
C23_PureEngine ==
    /\ modstate = {}
    /\ \A i \in Cases :
          Succeeded(i) =>
              /\ task[i].facts = CompanyFactsOf(CaseOf(i).cik10)
              /\ task[i].result = AloneRecord(i)

\* Every case has its snapshot, after a run whose requests failed and were
\* repeated in between; each invocation has read objects of its store and
\* changed objects of its own
C23_Witness ==
    /\ \A i \in Cases :
          /\ Succeeded(i)
          /\ task[i].result[<<"", "has_companyfacts">>] = Num(1)
          /\ task[i].attempt >= 2
          /\ ReadStoreWroteLocals(CompanyFactsOf(CaseOf(i).cik10))
    /\ task[1].result # task[2].result

\* The engine has run for case 1 while the invocation for case 2 is under
\* way, between two of its attempts
C23_InterleavedWitness ==
    /\ Succeeded(1)
    /\ task[2].pc = "request" /\ task[2].attempt >= 2

\* The other order: case 2 has its snapshot and case 1 is still under way
C23_ReverseOrderWitness ==
    /\ Succeeded(2)
    /\ task[1].pc = "request" /\ task[1].attempt >= 2

\* The cases whose task has returned
DoneCases == {i \in Cases : task[i].pc = "done"}

\* Task i returned an error record
Failed(i) == task[i].pc = "done" /\ task[i].resp # "200"

\* done_units counts the returned tasks and stays within total_units; a
\* stopped reporter has seen finished and done_units >= total_units
AccountingHolds ==
    /\ stats.done_units = Cardinality(DoneCases)
    /\ stats.done_units <= stats.total_units
    /\ reporter = "stopped" =>
          stats.finished /\ stats.done_units >= stats.total_units

\* done_units moves only by one, in the step in which one task returns
CountsOnce ==
    stats'.done_units # stats.done_units =>
        /\ stats'.done_units = stats.done_units + 1
        /\ \E i \in Cases :
              /\ task[i].pc # "done" /\ task'[i].pc = "done"
              /\ \A j \in Cases \ {i} : task'[j] = task[j]

\* C28: every case increments done_units exactly once, whether its fetch
\* succeeds or fails, so done_units never exceeds total_units; the reporter
\* stops only when finished is set and done_units >= total_units; and once
\* main has set finished (all tasks having returned) the reporter stops and
\* main's wait on it ends.
C28_ProgressAccounting ==
    /\ []AccountingHolds
    /\ [][CountsOnce]_vars
    /\ (stats.finished ~> reporter = "stopped")
    /\ (stats.finished ~> mpc \in {"returned", "raised"})

\* main has returned after a run in which one fetch failed and one succeeded
C28_Witness ==
    /\ mpc = "returned" /\ reporter = "stopped"
    /\ stats.finished /\ stats.done_units = stats.total_units
    /\ \E i, j \in Cases : Failed(i) /\ Succeeded(j)

\* finished is set and the reporter has not yet seen it
C28_PendingWitness ==
    /\ stats.finished /\ reporter = "running"
    /\ stats.done_units = stats.total_units

\* The write of the results raised: main leaves through its finally block
C28_RaisedWitness == mpc = "raised" /\ reporter = "stopped"

\* The reporter runs on while cases are open
C28_RunningWitness ==
    /\ reporter = "running" /\ ~stats.finished
    /\ stats.done_units = 1 /\ \E i \in Cases : Failed(i)
\* The tasks inside "async with self._sem": at the limiter or with their HTTP
\* request in flight
InSemaphore == {i \in Cases : task[i].pc \in {"limiter", "request"}}

InFlight == {i \in Cases : task[i].pc = "request"}

\* The slots taken and the slots free add up to max_concurrency
SlotsAccounted ==
    /\ Cardinality(InFlight) <= MaxConcurrency
    /\ Cardinality(InSemaphore) <= MaxConcurrency
    /\ sem = MaxConcurrency - Cardinality(InSemaphore)

\* C29: at every moment at most max_concurrency requests are in flight
\* inside _get_json, however many tasks run; the slot is given back after
\* each request, whether it succeeded or raised; and every task that waits
\* for a slot gets one.
C29_Throttle ==
    /\ []SlotsAccounted
    /\ \A i \in Cases : (task[i].pc = "start") ~> (task[i].pc = "limiter")

\* More tasks than slots: every slot is taken by a request in flight and a
\* task waits
C29_Witness ==
    /\ sem = 0
    /\ Cardinality(InFlight) = MaxConcurrency
    /\ \E i \in Cases : task[i].pc = "start"

\* A request raised (no response at all) and its slot is free again: the
\* task waits for its retry, no task is inside the semaphore
C29_ReleasedAfterRaiseWitness ==
    /\ sem = MaxConcurrency
    /\ \E i \in Cases :
          /\ task[i].pc = "start" /\ task[i].attempt = 2
          /\ task[i].resp = "RequestError"

\* The slot a failed request gave back has gone to the task that waited
C29_HandoverWitness ==
    /\ task[1].pc = "start" /\ task[1].attempt = 2 /\ task[1].resp = "500"
    /\ task[2].pc = "request" /\ task[2].attempt = 1

\* The slot is free after the last request has succeeded
C29_ReleasedAfterSuccessWitness ==
    /\ sem = MaxConcurrency
    /\ \A i \in Cases : Succeeded(i)
\* The responses the statistics have recorded
Recorded == stats.http_200 + stats.http_404 + stats.http_other

\* No call is past its 4th attempt; a call that ended on a retryable error
\* ended at the 4th attempt, and its task returned has_companyfacts = 0 with
\* the text of that last error (str(e), which is empty when the exception
\* carries no message); a call that ended on a body that is no JSON returned
\* the error record as well
RetryBounded ==
    /\ Recorded <= MaxAttempts * NumCases
    /\ \A i \in Cases :
          /\ task[i].attempt \in 1..MaxAttempts
          /\ Failed(i) =>
                /\ task[i].resp \in Retryable => task[i].attempt = MaxAttempts
                /\ task[i].result[<<"", "has_companyfacts">>] = Num(0)
                /\ task[i].result[<<"", "error">>] =
                      (IF task[i].resp = "404" THEN Name("404 companyfacts")
                       ELSE IF task[i].msg = "" THEN Str(<<>>)
                       ELSE Name(task[i].msg))
                /\ task[i].result = ErrorRecord(CaseOf(i).cik10, CaseOf(i).event_iso,
                                                ErrorText(task[i].resp, task[i].msg))

\* A further attempt follows only a request that ended on a request error or
\* an HTTP status error; a request that ended on status 200 ends the call
RetryStep ==
    \A i \in Cases :
        /\ task'[i].attempt # task[i].attempt =>
              /\ task'[i].attempt = task[i].attempt + 1
              /\ task[i].pc = "request" /\ task'[i].pc = "start"
              /\ task'[i].resp \in Retryable
        /\ (task[i].pc = "request" /\ task'[i].pc # "request"
               /\ task'[i].resp \in {"200", "bad_json"}) =>
              task'[i].pc = "done"

\* C30: one call of _get_json makes at most 4 HTTP attempts, retries only
\* after a request error or an HTTP status error (404 included), stops at the
\* first successful attempt, and after the 4th failed attempt lets the last
\* error through to fetch_rx_snapshot_for_case, which returns a record with
\* has_companyfacts = 0 and the error text.
C30_BoundedRetry == []RetryBounded /\ [][RetryStep]_vars

\* Four attempts answered 404: the record says "404 companyfacts"
C30_Witness ==
    \E i \in Cases :
        /\ Failed(i) /\ task[i].resp = "404" /\ task[i].attempt = MaxAttempts
        /\ task[i].result[<<"", "error">>] = Name("404 companyfacts")
        /\ stats.http_404 >= 1

\* The 4th attempt raised a request error after three other failures
C30_RequestErrorWitness ==
    \E i \in Cases :
        /\ Failed(i) /\ task[i].resp = "RequestError"
        /\ task[i].attempt = MaxAttempts
        /\ stats.http_other = MaxAttempts - 1

\* The 4th attempt raised a request error that carries no message: the error
\* text of the record is the empty string
C30_EmptyTextWitness ==
    \E i \in Cases :
        /\ Failed(i) /\ task[i].resp = "RequestError"
        /\ task[i].attempt = MaxAttempts
        /\ task[i].result[<<"", "has_companyfacts">>] = Num(0)
        /\ task[i].result[<<"", "error">>] = Str(<<>>)

\* The third attempt succeeded and the call stopped there
C30_FirstSuccessWitness ==
    \E i \in Cases :
        /\ Succeeded(i) /\ task[i].attempt = 3
        /\ task[i].result[<<"", "has_companyfacts">>] = Num(1)

\* A body that is no JSON ends the call at the first attempt
C30_NoRetryWitness ==
    \E i \in Cases :
        /\ Failed(i) /\ task[i].resp = "bad_json" /\ task[i].attempt = 1
=============================================================================
